---- MODULE Spec2Model ----
(***************************************************************************)
(* Hybrid movie recommendation engine (ai_recommender.py), the user        *)
(* preference layer (user_preference.py) and the collaborative-filtering   *)
(* neighbour lookup (movielens.py).                                        *)
(*                                                                         *)
(* Scores are fixed-point integers in units of 1/10000 (0.03 is 300);      *)
(* vote averages are in tenths (8.5 is 85); preference accumulators are in *)
(* hundredths (the code rounds them to two decimals).                      *)
(***************************************************************************)
EXTENDS Integers, Sequences, FiniteSets, TLC

VARIABLES
    req,                \* the request and what the collaborators answer to it
    loaded,             \* cf_loaded, _hf_loaded, _reranker_loaded
    backend,            \* cf_model, _embedder, _reranker (<<>> is None)
    pcR,                \* position of the recommendation request
    path,               \* which return statement the request left through
    candidate_profiles, \* profiles of the candidate pool, in iteration order
    cf_neighbors,       \* CF neighbour set used by the scorer
    scored_movies,      \* scored list after the sort by final_score
    reranked,           \* scored list after the re-ranking stage
    final_list,         \* MMR selection
    recommendations,    \* the list returned to the caller
    user_profile,       \* the user's stored profile (user_<id>.json)
    lastOp,             \* the last operation of the preference engine
    base_recs,          \* base list of the last operation, if a personalized request
    personalized,       \* list returned by the last operation, if a personalized request
    opCount,            \* number of tracking operations so far
    rated_ids,          \* ids the user has rated (history)
    tpc,                \* request thread -> position in the lazy loaders, and what
                        \* its _cf_neighbors_for_tmdb call returned, <<>> before
    loadStarts,         \* resource -> number of load operations started
    files,              \* path -> inode (0 when the path does not exist)
    inodes,             \* inode -> content, a sequence of chunks
    wr,                 \* saving thread -> position in save_user_profile
    rd,                 \* loading thread: position in load_user_profile
    record_state,       \* what the profile path holds: absent, valid or a damaged record
    quarantine,         \* what the .corrupt path holds ("none" when absent)
    raised,             \* exception the last preference-engine call let escape
    returned,           \* profile returned by the last load_user_profile, <<>> if none
    ml_input,           \* arguments of build_and_save_cf_model
    snapshot_file,      \* bytes at the model path, <<>> when there is no file
    build_result,       \* "not_run", or what the builder returned
    loaded_model,       \* object returned by load_similarity_model, <<>> before
    saved_payload,      \* object last handed to save_similarity_model
    feature_profile,    \* argument of create_feature_string
    feature_string,     \* tokens of the string it returned, <<>> before the call
    history,            \* every entry tracked so far, per bounded list of the profile
    trackers            \* the tracking calls in flight: position, operation, local profile

engineVars == <<loaded, backend>>
rankVars == <<pcR, path, candidate_profiles, cf_neighbors, scored_movies,
              reranked, final_list, recommendations>>
userVars == <<user_profile, lastOp, base_recs, personalized, opCount, rated_ids>>
vars == <<req, loaded, backend, pcR, path, candidate_profiles, cf_neighbors,
          scored_movies, reranked, final_list, recommendations,
          user_profile, lastOp, base_recs, personalized, opCount, rated_ids,
          tpc, loadStarts, files, inodes, wr, rd,
          record_state, quarantine, raised, returned,
          ml_input, snapshot_file, build_result, loaded_model, saved_payload,
          feature_profile, feature_string, history, trackers>>
loadVars == <<tpc, loadStarts>>
fileVars == <<files, inodes, wr, rd>>
recordVars == <<record_state, quarantine, raised, returned>>
buildVars == <<ml_input, snapshot_file, build_result, loaded_model, saved_payload>>
featureVars == <<feature_profile, feature_string>>
trackVars == <<history, trackers>>
auxVars == <<buildVars, featureVars, trackVars>>

----------------------------------------------------------------------------
(* Generic helpers *)

Min(a, b) == IF a <= b THEN a ELSE b
Max(a, b) == IF a >= b THEN a ELSE b

Range(s) == {s[i] : i \in 1..Len(s)}

Take(s, n) == SubSeq(s, 1, Min(n, Len(s)))

\* all sequences without repetition over the set S, of length at most n
RECURSIVE DistinctSeqs(_, _)
DistinctSeqs(S, n) ==
    IF n = 0 \/ S = {} THEN {<<>>}
    ELSE {<<>>} \cup UNION {{<<x>> \o t : t \in DistinctSeqs(S \ {x}, n - 1)} : x \in S}

\* the elements of a set of integers in ascending order
RECURSIVE SetToSeq(_)
SetToSeq(S) ==
    IF S = {} THEN <<>>
    ELSE LET m == CHOOSE x \in S : \A y \in S : x <= y
         IN <<m>> \o SetToSeq(S \ {m})

\* round(x / d) to the nearest integer, halves to the even one (Python round)
RoundDiv(x, d) ==
    LET q == x \div d
        r == x % d
    IN IF 2 * r < d THEN q
       ELSE IF 2 * r > d THEN q + 1
       ELSE IF q % 2 = 0 THEN q ELSE q + 1

----------------------------------------------------------------------------
(* Bounds of the model *)

MaxPool == 3        \* largest candidate pool
MaxN == 2           \* largest num_recommendations
MaxOps == 3         \* tracking operations per run
MaxThreads == 2     \* concurrent first requests
MaxWriters == 2     \* concurrent saves of one profile
MaxChunks == 2      \* chunks of the largest serialized profile

(* The metadata provider's catalogue: what get_movie_details, credits and  *)
(* keywords answer for each id.  Id 1 is the seed of every request.        *)
SeedId == 1
NonSeedIds == {2, 3, 4, 5}
MovieIds == {SeedId} \cup NonSeedIds

Details(id) ==
    CASE id = 1 -> [genres |-> <<"SciFi", "Adventure">>, director |-> <<"Nolan">>,
                    cast |-> <<"Hathaway">>, vote_average |-> 84,
                    popularity |-> 60, release_year |-> 2014]
      [] id = 2 -> [genres |-> <<"SciFi", "Adventure">>, director |-> <<"Nolan">>,
                    cast |-> <<"Hathaway", "Caine">>, vote_average |-> 85,
                    popularity |-> 4, release_year |-> 2010]
      [] id = 3 -> [genres |-> <<"Drama">>, director |-> <<"Lee">>,
                    cast |-> <<"Caine">>, vote_average |-> 50,
                    popularity |-> 30, release_year |-> 0]
      [] id = 4 -> [genres |-> <<"SciFi", "Adventure">>, director |-> <<"Scott">>,
                    cast |-> <<"Ford">>, vote_average |-> 90,
                    popularity |-> 0, release_year |-> 1985]
      [] OTHER  -> [genres |-> <<"SciFi">>, director |-> <<"Lee">>,
                    cast |-> <<"Ford", "Caine">>, vote_average |-> 60,
                    popularity |-> 0, release_year |-> 1980]

\* raw similarities the vectorizer can produce: below, just above and well
\* above the noise floor
SimValues == {200, 400, 3000}
\* pairwise content similarities between candidates
PairValues == {0, 3000, 9500}

----------------------------------------------------------------------------
(* movielens.py: the persisted similarity model and the neighbour lookup *)

\* MovieLens ids are the TMDb id plus 10 in this catalogue's crosswalk
LinkedTmdb == {1, 2, 3, 4, 5}
MovieToTmdb == [m \in {t + 10 : t \in LinkedTmdb} |-> m - 10]
TmdbToMovie == [t \in LinkedTmdb |-> t + 10]

\* item rows 0..2 hold MovieLens ids 11, 12, 14; two neighbour slots per row,
\* zero-padded (index 0, score 0) where a row has fewer neighbours
ModelA ==
    [item_index |-> [m \in {11, 12, 14} |-> CASE m = 11 -> 0 [] m = 12 -> 1 [] OTHER -> 2],
     index_to_movieId |-> [i \in 0..2 |-> CASE i = 0 -> 11 [] i = 1 -> 12 [] OTHER -> 14],
     top_indices |-> [i \in 0..2 |-> CASE i = 0 -> <<1, 2>> [] i = 1 -> <<0, 0>> [] OTHER -> <<0, 1>>],
     top_scores |-> [i \in 0..2 |-> CASE i = 0 -> <<50, 80>> [] i = 1 -> <<70, 0>> [] OTHER -> <<50, 30>>],
     movieId_to_tmdbId |-> MovieToTmdb,
     tmdbId_to_movieId |-> TmdbToMovie]

\* the seed's row has a single neighbour and one padded slot
ModelB ==
    [item_index |-> [m \in {11, 13, 15} |-> CASE m = 11 -> 0 [] m = 13 -> 1 [] OTHER -> 2],
     index_to_movieId |-> [i \in 0..2 |-> CASE i = 0 -> 11 [] i = 1 -> 13 [] OTHER -> 15],
     top_indices |-> [i \in 0..2 |-> CASE i = 0 -> <<2, 0>> [] i = 1 -> <<0, 2>> [] OTHER -> <<0, 1>>],
     top_scores |-> [i \in 0..2 |-> CASE i = 0 -> <<60, 0>> [] i = 1 -> <<40, 20>> [] OTHER -> <<60, 20>>],
     movieId_to_tmdbId |-> MovieToTmdb,
     tmdbId_to_movieId |-> TmdbToMovie]

\* ModelA read back from a file in which one byte of the pickled key
\* 'item_index' changed: pickle keeps no checksum, so the load succeeds
ModelDamaged ==
    [item_indey |-> ModelA.item_index,
     index_to_movieId |-> ModelA.index_to_movieId,
     top_indices |-> ModelA.top_indices,
     top_scores |-> ModelA.top_scores,
     movieId_to_tmdbId |-> MovieToTmdb,
     tmdbId_to_movieId |-> TmdbToMovie]

\* open(path, 'rb') or pickle.load raises: no permission to read the file,
\* or bytes that are no pickle
LoadRaises(file, snapshot) == file = "unreadable" \/ snapshot = "garbage"

\* pickle.load of the snapshot file
load_similarity_model(snapshot) ==
    CASE snapshot = "A" -> ModelA
      [] snapshot = "damaged" -> ModelDamaged
      [] OTHER -> ModelB

\* np.argsort(-scores): slot numbers by descending score, equal scores in
\* slot order
RECURSIVE ArgsortDesc(_, _)
ArgsortDesc(scores, slots) ==
    IF slots = {} THEN <<>>
    ELSE LET j == CHOOSE a \in slots :
                    \A b \in slots : scores[a] > scores[b] \/ (scores[a] = scores[b] /\ a <= b)
         IN <<j>> \o ArgsortDesc(scores, slots \ {j})

RECURSIVE NeighborLoop(_, _, _, _, _, _)
NeighborLoop(order, k, movie_id, model, recs, top_n) ==
    IF k > Len(order) THEN recs
    ELSE LET idx == model.item_index[movie_id]
             j == order[k]
             mid == model.index_to_movieId[model.top_indices[idx][j]]
             recs2 == IF mid # movie_id /\ model.top_scores[idx][j] > 0
                      THEN Append(recs, mid) ELSE recs
         IN IF Len(recs2) >= top_n THEN recs2
            ELSE NeighborLoop(order, k + 1, movie_id, model, recs2, top_n)

recommend_similar_by_movieId(movie_id, model, top_n) ==
    IF movie_id \notin DOMAIN model.item_index THEN <<>>
    ELSE LET scores == model.top_scores[model.item_index[movie_id]]
         IN NeighborLoop(ArgsortDesc(scores, DOMAIN scores), 1, movie_id, model, <<>>, top_n)

RECURSIVE TmdbLoop(_, _, _, _, _)
TmdbLoop(rec_ml_ids, k, model, tmdb_recs, top_n) ==
    IF k > Len(rec_ml_ids) THEN tmdb_recs
    ELSE LET mid == rec_ml_ids[k]
             recs2 == IF mid \in DOMAIN model.movieId_to_tmdbId
                         /\ model.movieId_to_tmdbId[mid] # 0
                      THEN Append(tmdb_recs, model.movieId_to_tmdbId[mid])
                      ELSE tmdb_recs
         IN IF Len(recs2) >= top_n THEN recs2
            ELSE TmdbLoop(rec_ml_ids, k + 1, model, recs2, top_n)

recommend_similar_by_tmdbId(tmdb_id, model, top_n) ==
    IF tmdb_id \notin DOMAIN model.tmdbId_to_movieId THEN <<>>
    ELSE TmdbLoop(recommend_similar_by_movieId(model.tmdbId_to_movieId[tmdb_id], model, 2 * top_n),
                  1, model, <<>>, top_n)

\* item_index = model['item_index'] raises KeyError
LookupRaises(tmdb_id, model) ==
    /\ tmdb_id \in DOMAIN model.tmdbId_to_movieId
    /\ "item_index" \notin DOMAIN model

----------------------------------------------------------------------------
(* config.py and the constants of ai_recommender.py *)

ENABLE_CONCEPT_EXPANSION == TRUE
RERANKER_TOP_K == 40
NoiseFloor == 300          \* score < 0.03
RatingBoostFrom == 60      \* rating >= 6
RatingBoostWeight == 8     \* (rating / 10) * 0.08, per tenth of a rating point
PopularityCap == 200       \* min(popularity / 1000, 0.02)
OldBefore == 1990          \* release_year < 1990
ClassicRating == 75        \* rating < 7.5
AgePenalty == 500          \* age_penalty = -0.05
CfBoost == 500             \* cf_boost = 0.05
lambda_rel == 7            \* lambda_rel = 0.7, in tenths
BestMmrInit == -1000000000 \* best_mmr = -1e9, below every MMR value
CfTopN == 50               \* _cf_neighbors_for_tmdb(source_movie_id, top_n=50)
FallbackTopN == 12         \* _cf_neighbors_for_tmdb(source_movie_id, top_n=12)
CastCap == 5               \* credits['cast'][:5]
PopularCap == 10           \* popular_movies[:10]

----------------------------------------------------------------------------
(* ai_recommender.py: lazily loaded resources, called one after another by *)
(* a single request.  st is [loaded, backend].                             *)

\* the flag set only when the model was loaded
EnsureHfModelRetries(rq, st) ==
    IF rq.hf = "disabled" \/ st.loaded.hf THEN st
    ELSE IF rq.hf = "ok"
         THEN [loaded |-> [st.loaded EXCEPT !.hf = TRUE],
               backend |-> [st.backend EXCEPT !.hf = <<"embedder">>]]
         ELSE st

EnsureHfModel(rq, st) ==
    IF rq.hf = "disabled" \/ st.loaded.hf THEN st
    ELSE [loaded |-> [st.loaded EXCEPT !.hf = TRUE],
          backend |-> [st.backend EXCEPT !.hf = IF rq.hf = "ok" THEN <<"embedder">> ELSE <<>>]]

EnsureReranker(rq, st) ==
    IF rq.rerank = "disabled" \/ st.loaded.rr THEN st
    ELSE [loaded |-> [st.loaded EXCEPT !.rr = TRUE],
          backend |-> [st.backend EXCEPT !.rr = IF rq.rerank = "unavailable" THEN <<>>
                                                  ELSE <<"cross_encoder">>]]

TryLoadCf(rq, st) ==
    IF st.loaded.cf THEN st
    ELSE [loaded |-> [st.loaded EXCEPT !.cf = TRUE],
          backend |-> [st.backend EXCEPT !.cf =
                          IF rq.cfFile = "absent" THEN @
                          ELSE IF LoadRaises(rq.cfFile, rq.cfData) THEN <<>>
                          ELSE <<load_similarity_model(rq.cfData)>>]]

\* _cf_neighbors_for_tmdb after _try_load_cf has run
CfNeighborsForTmdb(tmdb_id, st, top_n) ==
    IF st.backend.cf = <<>> THEN {}
    ELSE Range(recommend_similar_by_tmdbId(tmdb_id, st.backend.cf[1], top_n))

\* the same call raises
CfNeighborsRaises(tmdb_id, st) ==
    st.backend.cf # <<>> /\ LookupRaises(tmdb_id, st.backend.cf[1])

----------------------------------------------------------------------------
(* ai_recommender.py: profiles and the candidate pool *)

\* a profile for every id, whether the provider has details or not
BuildProfileAlways(movie_id, rq) ==
    LET d == Details(movie_id)
    IN <<[id |-> movie_id,
          genres |-> d.genres,
          cast |-> Take(d.cast, CastCap),
          director |-> d.director,
          release_year |-> d.release_year,
          vote_average |-> d.vote_average,
          popularity |-> d.popularity]>>

\* <<>> when the provider has no details for the id, else <<profile>>; no
\* cast and no director when the credits lookup returned None
build_movie_profile(movie_id, rq) ==
    IF movie_id \in rq.noDetails THEN <<>>
    ELSE LET d == Details(movie_id)
         IN <<[id |-> movie_id,
               genres |-> d.genres,
               cast |-> IF movie_id \in rq.noCredits THEN <<>>
                        ELSE Take(d.cast, CastCap),
               director |-> IF movie_id \in rq.noCredits THEN <<>> ELSE d.director,
               release_year |-> d.release_year,
               vote_average |-> d.vote_average,
               popularity |-> d.popularity]>>

\* similar pages and popular list, minus the seed, then the keyword
\* discoveries added after the seed was discarded
CandidateIds(rq) ==
    ((rq.similarIds \cup Range(Take(rq.popular, PopularCap))) \ {rq.seed})
        \cup (IF ENABLE_CONCEPT_EXPANSION THEN rq.discoverIds ELSE {})

RECURSIVE ProfilesOf(_, _)
ProfilesOf(ids, rq) ==
    IF ids = <<>> THEN <<>>
    ELSE build_movie_profile(Head(ids), rq) \o ProfilesOf(Tail(ids), rq)

----------------------------------------------------------------------------
(* ai_recommender.py: the hybrid scorer *)

\* the CF boost given to every candidate once the seed has any neighbour
FinalScoreBoostAll(profile, score, nb) ==
    LET rating == profile.vote_average
        rating_boost == IF rating >= RatingBoostFrom THEN rating * RatingBoostWeight ELSE 0
        popularity_boost == Min(profile.popularity * 10, PopularityCap)
        release_year == profile.release_year
        age_penalty == IF release_year > 0 /\ release_year < OldBefore /\ rating < ClassicRating
                       THEN 0 - AgePenalty ELSE 0
        cf_boost == IF nb # {} THEN CfBoost ELSE 0
    IN score + rating_boost + popularity_boost + age_penalty + cf_boost

\* the popularity boost without its cap
FinalScoreUncappedPopularity(profile, score, nb) ==
    LET rating == profile.vote_average
        rating_boost == IF rating >= RatingBoostFrom THEN rating * RatingBoostWeight ELSE 0
        popularity_boost == profile.popularity * 10
        release_year == profile.release_year
        age_penalty == IF release_year > 0 /\ release_year < OldBefore /\ rating < ClassicRating
                       THEN 0 - AgePenalty ELSE 0
        cf_boost == IF nb # {} /\ profile.id \in nb THEN CfBoost ELSE 0
    IN score + rating_boost + popularity_boost + age_penalty + cf_boost

\* the rating boost left out of the sum
FinalScoreNoRating(profile, score, nb) ==
    LET rating == profile.vote_average
        popularity_boost == Min(profile.popularity * 10, PopularityCap)
        release_year == profile.release_year
        age_penalty == IF release_year > 0 /\ release_year < OldBefore /\ rating < ClassicRating
                       THEN 0 - AgePenalty ELSE 0
        cf_boost == IF nb # {} /\ profile.id \in nb THEN CfBoost ELSE 0
    IN score + popularity_boost + age_penalty + cf_boost

FinalScore(profile, score, nb) ==
    LET rating == profile.vote_average
        rating_boost == IF rating >= RatingBoostFrom THEN rating * RatingBoostWeight ELSE 0
        popularity_boost == Min(profile.popularity * 10, PopularityCap)
        release_year == profile.release_year
        age_penalty == IF release_year > 0 /\ release_year < OldBefore /\ rating < ClassicRating
                       THEN 0 - AgePenalty ELSE 0
        cf_boost == IF nb # {} /\ profile.id \in nb THEN CfBoost ELSE 0
    IN score + rating_boost + popularity_boost + age_penalty + cf_boost

KeepsCandidate(score) == ~(score < NoiseFloor)

RECURSIVE ScoreLoop(_, _, _, _)
ScoreLoop(profiles, sims, nb, i) ==
    IF i > Len(profiles) THEN <<>>
    ELSE (IF KeepsCandidate(sims[i])
          THEN <<[profile |-> profiles[i],
                  similarity_score |-> sims[i],
                  final_score |-> FinalScore(profiles[i], sims[i], nb),
                  rerank_score |-> <<>>]>>
          ELSE <<>>)
         \o ScoreLoop(profiles, sims, nb, i + 1)

\* list.sort(key, reverse=True): descending, equal keys keep their order
StableSortDesc(s, keys) ==
    LET n == Len(s)
        Pos(i) == 1 + Cardinality({j \in 1..n : \/ keys[j] > keys[i]
                                                 \/ (keys[j] = keys[i] /\ j < i)})
    IN [p \in 1..n |-> s[CHOOSE i \in 1..n : Pos(i) = p]]

\* x.get('rerank_score', 0)
RerankKey(m) == IF m.rerank_score = <<>> THEN 0 ELSE m.rerank_score[1]

\* sort(key=lambda x: x['final_score'], reverse=True)
SortByFinalScore(s) == StableSortDesc(s, [i \in 1..Len(s) |-> s[i].final_score])

\* sort(key=lambda x: x.get('rerank_score', 0), reverse=True)
SortByRerankScore(s) == StableSortDesc(s, [i \in 1..Len(s) |-> RerankKey(s[i])])

\* both noise-floor tests made on the boosted score instead of the raw one
ScoredMoviesFloorOnFinal(profiles, sims, nb) ==
    SortByFinalScore(SelectSeq([i \in 1..Len(profiles) |->
                                  [profile |-> profiles[i],
                                   similarity_score |-> sims[i],
                                   final_score |-> FinalScore(profiles[i], sims[i], nb),
                                   rerank_score |-> <<>>]],
                               LAMBDA m : m.final_score >= NoiseFloor))

ScoredMovies(profiles, sims, nb) ==
    SortByFinalScore(SelectSeq(ScoreLoop(profiles, sims, nb, 1),
                               LAMBDA m : m.similarity_score >= NoiseFloor))

\* the whole list sorted by the cross-encoder's scores
RerankAll(rq, st, scored) ==
    IF st.backend.rr = <<>> \/ scored = <<>> \/ rq.rerank = "predict_raises" THEN scored
    ELSE SortByRerankScore([k \in 1..Len(scored) |->
            [scored[k] EXCEPT !.rerank_score = <<rq.rerankScores[scored[k].profile.id]>>]])

\* the optional cross-encoder stage; with "bad_score" the second score
\* returned by predict is no number: float(s) raises after the first item
\* has its rerank_score, before the sort
Rerank(rq, st, scored) ==
    IF st.backend.rr = <<>> \/ scored = <<>> \/ rq.rerank = "predict_raises" THEN scored
    ELSE IF rq.rerank = "bad_score"
    THEN [k \in 1..Len(scored) |->
            IF k = 1
            THEN [scored[k] EXCEPT !.rerank_score = <<rq.rerankScores[scored[k].profile.id]>>]
            ELSE scored[k]]
    ELSE LET top_k == Max(1, rq.rerankTopK)
             subset == [k \in 1..Min(top_k, Len(scored)) |->
                          [scored[k] EXCEPT !.rerank_score = <<rq.rerankScores[scored[k].profile.id]>>]]
         IN SortByRerankScore(subset)
              \o SubSeq(scored, Min(top_k, Len(scored)) + 1, Len(scored))

----------------------------------------------------------------------------
(* ai_recommender.py: MMR diversification.  lam is the relevance weight in *)
(* tenths; MMR values are in tenths of a score unit.                       *)

\* id_to_idx: position of a profile id in candidate_profiles (0 is None)
IdToIdx(profiles, id) ==
    IF \E i \in 1..Len(profiles) : profiles[i].id = id
    THEN CHOOSE i \in 1..Len(profiles) :
            /\ profiles[i].id = id
            /\ \A j \in 1..Len(profiles) : profiles[j].id = id => j <= i
    ELSE 0

\* pairwise[i, j] of the candidate vectors
PairwiseAt(pw, i, j) ==
    IF i = j THEN 10000 ELSE pw[<<Min(i, j), Max(i, j)>>]

\* max similarity of scored entry si to the already selected entries
Diversity(scored, profiles, pw, si, selected) ==
    LET idx == IdToIdx(profiles, scored[si].profile.id)
        sel_indices == {IdToIdx(profiles, scored[selected[k]].profile.id) : k \in 1..Len(selected)} \ {0}
    IN IF idx = 0 \/ selected = <<>> \/ sel_indices = {} THEN 0
       ELSE CHOOSE d \in {PairwiseAt(pw, idx, s) : s \in sel_indices} :
               \A s \in sel_indices : PairwiseAt(pw, idx, s) <= d

\* redundancy added instead of subtracted
MmrValuePlus(lam, scored, profiles, pw, si, selected) ==
    lam * scored[si].final_score + (10 - lam) * Diversity(scored, profiles, pw, si, selected)

MmrValue(lam, scored, profiles, pw, si, selected) ==
    lam * scored[si].final_score - (10 - lam) * Diversity(scored, profiles, pw, si, selected)

\* the last entry reaching the maximum wins (mmr >= best_mmr)
RECURSIVE MmrPickLast(_, _, _, _, _, _, _, _, _)
MmrPickLast(lam, scored, profiles, pw, available, selected, k, best_i, best_mmr) ==
    IF k > Len(available) THEN best_i
    ELSE LET mmr == MmrValue(lam, scored, profiles, pw, available[k], selected)
         IN IF mmr >= best_mmr
            THEN MmrPickLast(lam, scored, profiles, pw, available, selected, k + 1, available[k], mmr)
            ELSE MmrPickLast(lam, scored, profiles, pw, available, selected, k + 1, best_i, best_mmr)

\* the first available entry taken, whatever its value
MmrPickFirst(lam, scored, profiles, pw, available, selected, k, best_i, best_mmr) ==
    available[1]

\* the inner for loop: the first entry reaching the maximum wins
RECURSIVE MmrPick(_, _, _, _, _, _, _, _, _)
MmrPick(lam, scored, profiles, pw, available, selected, k, best_i, best_mmr) ==
    IF k > Len(available) THEN best_i
    ELSE LET mmr == MmrValue(lam, scored, profiles, pw, available[k], selected)
         IN IF mmr > best_mmr
            THEN MmrPick(lam, scored, profiles, pw, available, selected, k + 1, available[k], mmr)
            ELSE MmrPick(lam, scored, profiles, pw, available, selected, k + 1, best_i, best_mmr)

\* the picked entry left in available
RECURSIVE MmrLoopNoRemove(_, _, _, _, _, _, _)
MmrLoopNoRemove(lam, scored, profiles, pw, available, selected, n) ==
    IF available = <<>> \/ ~(Len(selected) < n) THEN selected
    ELSE LET best_i == MmrPick(lam, scored, profiles, pw, available, selected, 1, 0, BestMmrInit)
         IN IF best_i = 0 THEN <<0>>
            ELSE MmrLoopNoRemove(lam, scored, profiles, pw, available,
                                 Append(selected, best_i), n)

\* the while loop: indices into scored, in selection order; <<0>> when
\* available.remove(None) raises
RECURSIVE MmrLoop(_, _, _, _, _, _, _)
MmrLoop(lam, scored, profiles, pw, available, selected, n) ==
    IF available = <<>> \/ ~(Len(selected) < n) THEN selected
    ELSE LET best_i == MmrPick(lam, scored, profiles, pw, available, selected, 1, 0, BestMmrInit)
         IN IF best_i = 0 THEN <<0>>
            ELSE MmrLoop(lam, scored, profiles, pw,
                         SelectSeq(available, LAMBDA a : a # best_i),
                         Append(selected, best_i), n)

MmrSelect(lam, scored, profiles, pw, n) ==
    MmrLoop(lam, scored, profiles, pw, [i \in 1..Len(scored) |-> i], <<>>, n)

\* final_list: the selection, or the top n when the MMR block raised
FinalList(lam, scored, profiles, pw, n) ==
    LET selected == MmrSelect(lam, scored, profiles, pw, n)
    IN IF selected = <<0>> THEN Take(scored, n)
       ELSE [k \in 1..Len(selected) |-> scored[selected[k]]]

----------------------------------------------------------------------------
(* ai_recommender.py: get_intelligent_recommendations as one function of   *)
(* the request rq and the engine state st                                  *)

\* round(similarity * 100, 1), in tenths of a percent
PercentOf(score) == RoundDiv(score, 10)

ToRecommendations(final, n) ==
    [k \in 1..Min(n, Len(final)) |->
        [id |-> final[k].profile.id,
         similarity_score |-> PercentOf(final[k].similarity_score),
         profile |-> final[k].profile]]

\* the except branch: the seed's CF neighbours, similarity 0.0
RECURSIVE FallbackRecs(_, _)
FallbackRecs(ids, rq) ==
    IF ids = <<>> THEN <<>>
    ELSE LET prof == build_movie_profile(Head(ids), rq)
         IN (IF prof = <<>> THEN <<>>
             ELSE <<[id |-> prof[1].id, similarity_score |-> 0, profile |-> prof[1]]>>)
            \o FallbackRecs(Tail(ids), rq)

EmptyRun(p, st, profiles) ==
    [path |-> p, st |-> st, candidate_profiles |-> profiles, cf_neighbors |-> {},
     scored_movies |-> <<>>, reranked |-> <<>>, final_list |-> <<>>,
     recommendations |-> <<>>]

\* the similarities of the request: the embedder's when one is loaded,
\* the TF-IDF vectorizer's otherwise
Similarities(rq, st) ==
    IF st.backend.hf # <<>> THEN rq.embedSimilarities ELSE rq.similarities

get_intelligent_recommendations(rq, st0, n) ==
    LET source_profile == build_movie_profile(rq.seed, rq)
        profiles == ProfilesOf(rq.candOrder, rq)
    IN IF source_profile = <<>> THEN EmptyRun("no_seed", st0, <<>>)
       ELSE IF profiles = <<>> THEN EmptyRun("no_candidates", st0, <<>>)
       ELSE LET st1 == EnsureHfModel(rq, st0)
            IN IF rq.vecOutcome = "raise"
               THEN LET st2 == TryLoadCf(rq, st1)
                        nb == CfNeighborsForTmdb(rq.seed, st2, FallbackTopN)
                    IN IF CfNeighborsRaises(rq.seed, st2)
                       THEN EmptyRun("raised", st2, profiles)
                       ELSE
                       [EmptyRun("fallback", st2, profiles) EXCEPT
                          !.cf_neighbors = nb,
                          !.recommendations = FallbackRecs(Take(SetToSeq(nb), FallbackTopN), rq)]
               ELSE LET st2 == TryLoadCf(rq, st1)
                        nb == CfNeighborsForTmdb(rq.seed, st2, CfTopN)
                        scored == ScoredMovies(profiles, Similarities(rq, st2), nb)
                        st3 == EnsureReranker(rq, st2)
                        rr == Rerank(rq, st3, scored)
                        final == FinalList(lambda_rel, rr, profiles, rq.pairwise, n)
                    IN IF CfNeighborsRaises(rq.seed, st2)
                       THEN EmptyRun("raised", st2, profiles)
                       ELSE
                       [path |-> "main", st |-> st3, candidate_profiles |-> profiles,
                        cf_neighbors |-> nb, scored_movies |-> scored,
                        reranked |-> rr, final_list |-> final,
                        recommendations |-> ToRecommendations(final, n)]

----------------------------------------------------------------------------
(* The requests of the ranking specification: what the provider, the       *)
(* vectorizer, the snapshot file and the optional backends answer          *)

Pairs(n) == {p \in (1..n) \X (1..n) : p[1] < p[2]}

\* movies 2 and 4 are near-duplicates of each other, 3 and 5 are related
CataloguePair(a, b) ==
    IF {a, b} = {2, 4} THEN 9500 ELSE IF {a, b} = {3, 5} THEN 3000 ELSE 0

ProfileIds(order, noDetails) == SelectSeq(order, LAMBDA id : id \notin noDetails)

DefaultPairwise(ids) ==
    [p \in Pairs(Len(ids)) |-> CataloguePair(ids[p[1]], ids[p[2]])]

AscScores == [id \in MovieIds |-> id * 10]
DescScores == [id \in MovieIds |-> 100 - id * 10]

InitialEngine == [loaded |-> [cf |-> FALSE, hf |-> FALSE, rr |-> FALSE],
                  backend |-> [cf |-> <<>>, hf |-> <<>>, rr |-> <<>>]]

Request(similar, popular, discover, noDetails, order, vec, sims, pw, cf, data, hf, rr, rs, n) ==
    [seed |-> SeedId, similarIds |-> similar, popular |-> popular,
     discoverIds |-> discover, noDetails |-> noDetails, candOrder |-> order,
     vecOutcome |-> vec, similarities |-> sims, embedSimilarities |-> sims,
     pairwise |-> pw,
     cfFile |-> cf, cfData |-> data, hf |-> hf, rerank |-> rr,
     noCredits |-> {}, rerankTopK |-> RERANKER_TOP_K,
     rerankScores |-> rs, num_recommendations |-> n]

\* a request is well formed when the iteration order lists exactly the
\* candidate ids and there is one similarity per candidate profile
WellFormed(rq) ==
    /\ Range(rq.candOrder) = CandidateIds(rq)
    /\ Len(rq.candOrder) = Cardinality(CandidateIds(rq))
    /\ Len(rq.similarities) = Len(ProfileIds(rq.candOrder, rq.noDetails))

\* every pool of up to MaxPool catalogue movies in every order, every
\* similarity vector, with and without a snapshot, with and without a
\* vectorizer failure
ScoringRequest(rq) ==
    \E order \in DistinctSeqs(NonSeedIds, MaxPool) :
    \E sims \in [1..Len(order) -> SimValues] :
    \E vec \in {"ok", "raise"} :
    \E cf \in {<<"absent", "A">>, <<"ok", "A">>, <<"ok", "B">>} :
    \E n \in 1..MaxN :
        rq = Request(Range(order) \cup {SeedId}, <<>>, {}, {}, order, vec, sims,
                     DefaultPairwise(order), cf[1], cf[2], "disabled", "disabled",
                     AscScores, n)

\* three-candidate pools under every pairwise similarity matrix
DiversityRequest(rq) ==
    \E order \in {<<2, 3, 4>>, <<4, 3, 2>>, <<3, 5, 2>>} :
    \E sims \in [1..3 -> {400, 3000}] :
    \E pw \in [Pairs(3) -> PairValues] :
    \E n \in 1..(MaxN + 1) :
        rq = Request(Range(order), <<>>, {}, {}, order, "ok", sims, pw, "absent", "A",
                     "disabled", "disabled", AscScores, n)

\* provider anomalies: the seed among the keyword discoveries, ids without
\* details, candidates from the popular list
AnomalyRequest(rq) ==
    \E similar \in {{2}, {2, 3}} :
    \E popular \in {<<>>, <<SeedId, 4>>} :
    \E discover \in {{}, {SeedId}, {SeedId, 5}} :
    \E noDetails \in {{}, {SeedId}, {2}, {2, 3, 5}} :
    \E order \in DistinctSeqs(((similar \cup Range(popular)) \ {SeedId}) \cup discover,
                              Cardinality(MovieIds)) :
    \E vec \in {"ok", "raise"} :
    \E sim \in {400, 3000} :
    \E cf \in {"absent", "ok"} :
    \E noCredits \in {{}, {SeedId, 2}} :
        /\ rq = [Request(similar, popular, discover, noDetails, order, vec,
                         [k \in 1..Len(ProfileIds(order, noDetails)) |-> sim],
                         DefaultPairwise(ProfileIds(order, noDetails)), cf, "A",
                         "disabled", "disabled", AscScores, MaxN)
                    EXCEPT !.noCredits = noCredits]
        /\ WellFormed(rq)

\* the snapshot file in every state: absent, present and sound, unreadable,
\* and corrupt with both outcomes of unpickling damaged bytes
SnapshotRequest(rq) ==
    \E order \in {<<2, 3, 4>>, <<4, 5>>, <<3>>} :
    \E sims \in [1..Len(order) -> {400, 3000}] :
    \E vec \in {"ok", "raise"} :
    \E cf \in {<<"absent", "A">>, <<"ok", "A">>, <<"unreadable", "A">>,
               <<"corrupt", "garbage">>, <<"corrupt", "damaged">>} :
        rq = Request(Range(order), <<>>, {}, {}, order, vec, sims, DefaultPairwise(order),
                     cf[1], cf[2], "disabled", "disabled", AscScores, MaxN)

\* what the embedding model answers where TF-IDF answers sims: it rates the
\* candidates the other way round
EmbedderSims(sims) == [i \in DOMAIN sims |-> IF sims[i] = 400 THEN 3000 ELSE 400]

\* optional backends: the embedding model and the cross-encoder
BackendRequest(rq) ==
    \E order \in {<<2, 3, 4>>, <<5, 4>>} :
    \E sims \in [1..Len(order) -> {400, 3000}] :
    \E hf \in {"disabled", "ok", "unavailable"} :
    \E rerank \in {"disabled", "unavailable", "ok", "predict_raises", "bad_score"} :
    \E rscores \in {AscScores, DescScores} :
    \E top_k \in {0, 1, 2, RERANKER_TOP_K} :
    \E n \in 1..MaxN :
        rq = [Request(Range(order), <<>>, {}, {}, order, "ok", sims, DefaultPairwise(order),
                      "absent", "A", hf, rerank, rscores, n)
                 EXCEPT !.rerankTopK = top_k, !.embedSimilarities = EmbedderSims(sims)]

\* _empty_profile: no rating, no feedback, empty accumulators
EmptyProfile ==
    [ratings |-> <<>>, watchlist |-> <<>>, viewed |-> <<>>, clicked_trailers |-> <<>>,
     searches |-> <<>>, liked |-> <<>>, disliked |-> <<>>,
     preferences |-> [genres |-> <<>>, directors |-> <<>>, actors |-> <<>>,
                      keywords |-> <<>>]]

UserIdle ==
    /\ user_profile = EmptyProfile
    /\ lastOp = "none"
    /\ base_recs = <<>>
    /\ personalized = <<>>
    /\ opCount = 0
    /\ rated_ids = {}

Threads == 1..MaxThreads
Writers == 1..MaxWriters

LoadIdle ==
    /\ tpc = [t \in Threads |-> [res |-> 1, stage |-> "check", neighbors |-> <<>>]]
    /\ loadStarts = [cf |-> 0, hf |-> 0, rr |-> 0]

NoBuild == [ratings |-> <<>>, links |-> <<>>, top_k |-> 0, min_item_ratings |-> 0,
            tie |-> "low"]

BuildIdle ==
    /\ ml_input = NoBuild
    /\ snapshot_file = <<>>
    /\ build_result = "not_run"
    /\ loaded_model = <<>>
    /\ saved_payload = <<>>

FeatureIdle ==
    /\ feature_profile = <<>>
    /\ feature_string = <<>>

NoHistory == [viewed |-> <<>>, clicked_trailers |-> <<>>, searches |-> <<>>]

TrackIdle ==
    /\ history = NoHistory
    /\ trackers = <<>>

AuxIdle == BuildIdle /\ FeatureIdle /\ TrackIdle

RecordIdle ==
    /\ record_state = "valid"
    /\ quarantine = "none"
    /\ raised = "none"
    /\ returned = <<>>

\* a save_user_profile call before its first statement: failed names the
\* statement that raised, cleanup what the except branch did, exc the
\* exception that left the call
NewSaver == [pc |-> "start", fd |-> 0, off |-> 0, failed |-> "none", cleanup |-> "none",
             exc |-> "none"]

FileIdle ==
    /\ files = [profile |-> 0, tmp |-> 0, corrupt |-> 0]
    /\ inodes = <<>>
    /\ wr = [w \in Writers |-> NewSaver]
    /\ rd = [pc |-> "idle", fd |-> 0, data |-> <<>>, result |-> "none"]

RankIdle ==
    /\ pcR = "ready"
    /\ path = "none"
    /\ candidate_profiles = <<>>
    /\ cf_neighbors = {}
    /\ scored_movies = <<>>
    /\ reranked = <<>>
    /\ final_list = <<>>
    /\ recommendations = <<>>

Init ==
    /\ \/ ScoringRequest(req)
       \/ DiversityRequest(req)
       \/ AnomalyRequest(req)
       \/ BackendRequest(req)
       \/ SnapshotRequest(req)
    /\ loaded = InitialEngine.loaded
    /\ backend = InitialEngine.backend
    /\ RankIdle
    /\ UserIdle
    /\ LoadIdle
    /\ FileIdle
    /\ RecordIdle
    /\ AuxIdle

\* one call of get_intelligent_recommendations(seed, num_recommendations)
Recommend ==
    /\ pcR = "ready"
    /\ LET run == get_intelligent_recommendations(
                     req, [loaded |-> loaded, backend |-> backend], req.num_recommendations)
       IN /\ loaded' = run.st.loaded
          /\ backend' = run.st.backend
          /\ path' = run.path
          /\ candidate_profiles' = run.candidate_profiles
          /\ cf_neighbors' = run.cf_neighbors
          /\ scored_movies' = run.scored_movies
          /\ reranked' = run.reranked
          /\ final_list' = run.final_list
          /\ recommendations' = run.recommendations
    /\ pcR' = "done"
    /\ UNCHANGED <<req, userVars, loadVars, fileVars, recordVars, auxVars>>

Next == Recommend

Spec == Init /\ [][Next]_vars

----------------------------------------------------------------------------
(* The preference engine (user_preference.py).  Preference accumulators  *)
(* are in hundredths; personalization and final scores in 1/10000.        *)

GenreWeight == 3
GenreCap == 1500
DirectorWeight == 5
DirectorCap == 1000
ActorWeight == 1
ActorCap == 500
TotalCap == 3000
DislikedPenalty == 5000
MoreLikeWeight == 50
LearnFromRating == 4
KeywordCap == 10

Digits == <<"0", "1", "2", "3", "4", "5", "6", "7", "8", "9">>
\* str(movie_id), for the one-digit ids of the catalogue
Str(n) == Digits[n + 1]

Keywords(id) ==
    IF id = 2 THEN <<"space">> ELSE IF id = 4 THEN <<"space", "robot">> ELSE <<>>

\* the movie features the routes hand to the tracking operations
MovieData(id) ==
    [genres |-> Details(id).genres, director |-> Details(id).director,
     cast |-> Details(id).cast, keywords |-> Keywords(id)]

\* dict.get(key, 0)
Get(table, key) == IF key \in DOMAIN table THEN table[key] ELSE 0

\* dict[key] = v
Put(table, key, v) == [k \in DOMAIN table \cup {key} |-> IF k = key THEN v ELSE table[k]]

\* dict.get(name, [])
Field(rec, name) == IF name \in DOMAIN rec THEN rec[name] ELSE <<>>

\* the accumulator set to the weight instead of raised by it
RECURSIVE AddWeightOverwrite(_, _, _)
AddWeightOverwrite(table, names, w) ==
    IF names = <<>> THEN table
    ELSE AddWeightOverwrite(IF Head(names) # "" THEN Put(table, Head(names), w) ELSE table,
                            Tail(names), w)

\* one loop of _update_preferences: table[name] += w for each name
RECURSIVE AddWeight(_, _, _)
AddWeight(table, names, w) ==
    IF names = <<>> THEN table
    ELSE AddWeight(IF Head(names) # ""
                   THEN Put(table, Head(names), Get(table, Head(names)) + w)
                   ELSE table,
                   Tail(names), w)

update_preferences(profile, movie_data, weight) ==
    [profile EXCEPT !.preferences =
        [genres |-> AddWeight(@.genres, Field(movie_data, "genres"), weight),
         directors |-> AddWeight(@.directors, Field(movie_data, "director"), weight),
         actors |-> AddWeight(@.actors, Take(Field(movie_data, "cast"), CastCap),
                              RoundDiv(weight * 5, 10)),
         keywords |-> AddWeight(@.keywords, Take(Field(movie_data, "keywords"), KeywordCap),
                                RoundDiv(weight * 3, 10))]]

\* movie_data is <<>> for None; weight = rating / 5.0
track_rating(profile, movie_id, rating, movie_data) ==
    LET rated == [profile EXCEPT !.ratings = Put(@, Str(movie_id), rating)]
    IN IF movie_data # <<>> /\ rating >= LearnFromRating
       THEN update_preferences(rated, movie_data[1], rating * 20)
       ELSE rated

track_not_interested(profile, movie_id) ==
    IF movie_id \in Range(profile.disliked) THEN profile
    ELSE [profile EXCEPT !.disliked = Append(@, movie_id)]

track_more_like(profile, movie_id, movie_data) ==
    LET liked == IF movie_id \in Range(profile.liked) THEN profile
                 ELSE [profile EXCEPT !.liked = Append(@, movie_id)]
    IN IF movie_data # <<>> THEN update_preferences(liked, movie_data[1], MoreLikeWeight)
       ELSE liked

\* sum of table[name] * w over the names present in the table
RECURSIVE TermSum(_, _, _)
TermSum(table, names, w) ==
    IF names = <<>> THEN 0
    ELSE (IF Head(names) \in DOMAIN table THEN table[Head(names)] * w ELSE 0)
         + TermSum(table, Tail(names), w)

\* the genre sum added without its cap
GenreTermUncapped(user_prefs, movie_profile) ==
    TermSum(user_prefs.genres, Field(movie_profile, "genres"), GenreWeight)

GenreTerm(user_prefs, movie_profile) ==
    Min(TermSum(user_prefs.genres, Field(movie_profile, "genres"), GenreWeight), GenreCap)

DirectorTerm(user_prefs, movie_profile) ==
    Min(TermSum(user_prefs.directors, Field(movie_profile, "director"), DirectorWeight),
        DirectorCap)

ActorTerm(user_prefs, movie_profile) ==
    Min(TermSum(user_prefs.actors, Take(Field(movie_profile, "cast"), CastCap), ActorWeight),
        ActorCap)

calculate_personalization_score(user_prefs, movie_profile) ==
    Min(GenreTerm(user_prefs, movie_profile) + DirectorTerm(user_prefs, movie_profile)
            + ActorTerm(user_prefs, movie_profile),
        TotalCap)

\* _get_profile_based_recommendations: the popular feed, scored on a
\* profile without genres, director or cast
get_profile_based_recommendations(profile, rq, num) ==
    LET candidates == Take(rq.popular, num * 2)
        recs == [k \in 1..Len(candidates) |->
                   LET va == Details(candidates[k]).vote_average
                       movie_profile == [id |-> candidates[k], genres |-> <<>>,
                                         vote_average |-> va]
                       score == calculate_personalization_score(profile.preferences,
                                                                movie_profile)
                   IN [id |-> candidates[k], profile |-> movie_profile,
                       similarity_score |-> RoundDiv(score, 10),
                       final_score |-> score + va * 10]]
    IN Take(SortByFinalScore(recs), num)

\* rec.get("final_score", rec.get("similarity_score", 0)): an engine entry
\* has no final_score and contributes its similarity in percent
BaseScore(rec) ==
    IF "final_score" \in DOMAIN rec THEN rec.final_score
    ELSE IF "similarity_score" \in DOMAIN rec THEN rec.similarity_score * 1000
    ELSE 0

\* only the items rated LearnFromRating or more count as rated
IsRatedHighly(profile, id) ==
    Str(id) \in DOMAIN profile.ratings /\ profile.ratings[Str(id)] >= LearnFromRating

IsRated(profile, id) == Str(id) \in DOMAIN profile.ratings

RECURSIVE PersonalizeLoop(_, _, _)
PersonalizeLoop(profile, base, k) ==
    IF k > Len(base) THEN <<>>
    ELSE LET rec == base[k]
             movie_profile == rec.profile
             personalization_score ==
                 calculate_personalization_score(profile.preferences, movie_profile)
             combined == BaseScore(rec) + personalization_score
             final_score == IF movie_profile.id \in Range(profile.disliked)
                            THEN combined - DislikedPenalty ELSE combined
         IN (IF IsRated(profile, movie_profile.id) THEN <<>>
             ELSE <<[id |-> rec.id, similarity_score |-> rec.similarity_score,
                     profile |-> movie_profile,
                     personalization_score |-> RoundDiv(personalization_score, 10),
                     final_score |-> final_score]>>)
            \o PersonalizeLoop(profile, base, k + 1)

\* base_movie_id is <<>> for None
get_personalized_recommendations(profile, rq, st, base_movie_id, num) ==
    LET run == IF base_movie_id # <<>>
               THEN get_intelligent_recommendations(rq, st, num * 2)
               ELSE [st |-> st,
                     recommendations |-> get_profile_based_recommendations(profile, rq, num * 2)]
        base == run.recommendations
    IN [st |-> run.st, base_recs |-> base,
        recs |-> IF base = <<>> THEN <<>>
                 ELSE Take(SortByFinalScore(PersonalizeLoop(profile, base, 1)), num)]

\* a profile file left by earlier sessions: movie 5 rated, accumulators
\* large enough for the caps to bind
HeavyProfile ==
    [ratings |-> [k \in {"5"} |-> 5], watchlist |-> <<>>,
     viewed |-> <<[movie_id |-> 5, timestamp |-> 0]>>, clicked_trailers |-> <<>>,
     searches |-> <<>>, liked |-> <<>>, disliked |-> <<>>,
     preferences |->
        [genres |-> [k \in {"SciFi", "Adventure"} |-> IF k = "SciFi" THEN 460 ELSE 300],
         directors |-> [k \in {"Nolan"} |-> 220],
         actors |-> [k \in {"Hathaway", "Caine"} |-> IF k = "Hathaway" THEN 450 ELSE 90],
         keywords |-> [k \in {"space"} |-> 120]]]

\* with and without a popular feed, a snapshot and a vectorizer failure
UserRequest(rq) ==
    \E env \in {<<<<>>, "ok", "absent">>, <<<<3, 4, 2>>, "ok", "ok">>,
                 <<<<3, 4, 2>>, "raise", "ok">>, <<<<>>, "raise", "absent">>} :
        LET order == SetToSeq(({2, 3, 5} \cup Range(env[1])) \ {SeedId})
        IN rq = Request({2, 3, 5}, env[1], {}, {}, order, env[2],
                        [k \in 1..Len(order) |-> IF order[k] = 3 THEN 3000 ELSE 400],
                        DefaultPairwise(order), env[3], "A", "disabled", "disabled",
                        AscScores, MaxN)

InitUser ==
    /\ UserRequest(req)
    /\ loaded = InitialEngine.loaded
    /\ backend = InitialEngine.backend
    /\ RankIdle
    /\ \/ user_profile = EmptyProfile /\ rated_ids = {}
       \/ user_profile = HeavyProfile /\ rated_ids = {5}
    /\ lastOp = "none"
    /\ base_recs = <<>>
    /\ personalized = <<>>
    /\ opCount = 0
    /\ LoadIdle
    /\ FileIdle
    /\ RecordIdle
    /\ AuxIdle

Tracked(op, p) ==
    /\ opCount < MaxOps
    /\ user_profile' = p
    /\ lastOp' = op
    /\ opCount' = opCount + 1
    /\ base_recs' = <<>>
    /\ personalized' = <<>>
    /\ UNCHANGED <<req, engineVars, rankVars, loadVars, fileVars, recordVars, auxVars>>

\* the rating calls: with and without movie data, above and below the
\* learning threshold
RatingCalls == {<<2, 5, TRUE>>, <<3, 3, TRUE>>, <<3, 5, FALSE>>, <<2, 3, FALSE>>}

TrackRating ==
    \E call \in RatingCalls :
        LET movie_id == call[1]
            movie_data == IF call[3] THEN <<MovieData(movie_id)>> ELSE <<>>
        IN /\ Tracked("track_rating",
                      track_rating(user_profile, movie_id, call[2], movie_data))
           /\ rated_ids' = rated_ids \cup {movie_id}

TrackNotInterested ==
    \E movie_id \in {2, 3} :
        /\ Tracked("track_not_interested", track_not_interested(user_profile, movie_id))
        /\ UNCHANGED rated_ids

TrackMoreLike ==
    \E movie_id \in {4} :
        /\ Tracked("track_more_like",
                   track_more_like(user_profile, movie_id, <<MovieData(movie_id)>>))
        /\ UNCHANGED rated_ids

GetPersonalized ==
    \E base_movie_id \in {<<>>, <<SeedId>>} : \E num \in 1..MaxN :
        LET run == get_personalized_recommendations(
                       user_profile, req, [loaded |-> loaded, backend |-> backend],
                       base_movie_id, num)
        IN /\ loaded' = run.st.loaded
           /\ backend' = run.st.backend
           /\ base_recs' = run.base_recs
           /\ personalized' = run.recs
           /\ lastOp' = "personalized"
           /\ UNCHANGED <<req, rankVars, user_profile, opCount, rated_ids, loadVars,
                          fileVars, recordVars, auxVars>>

NextUser == TrackRating \/ TrackNotInterested \/ TrackMoreLike \/ GetPersonalized

SpecUser == InitUser /\ [][NextUser]_vars

----------------------------------------------------------------------------
(* Concurrent first requests on the shared engine: the lazy loaders of    *)
(* ai_recommender.py, one statement at a time                             *)

\* the order in which a request reaches the loaders
Resources == <<"hf", "cf", "rr">>

\* _hf_enabled, _reranker_enabled; the CF loader has no switch
LoaderEnabled(rq, r) ==
    CASE r = "hf" -> rq.hf # "disabled"
      [] r = "rr" -> rq.rerank # "disabled"
      [] OTHER -> TRUE

\* what the load leaves in the backend attribute
LoadResult(rq, r) ==
    CASE r = "hf" -> EnsureHfModel(rq, InitialEngine).backend.hf
      [] r = "rr" -> EnsureReranker(rq, InitialEngine).backend.rr
      [] OTHER -> TryLoadCf(rq, InitialEngine).backend.cf

At(t, stage) == tpc[t].res <= Len(Resources) /\ tpc[t].stage = stage

\* the loader returns: after _try_load_cf the caller goes on in
\* _cf_neighbors_for_tmdb, after the others to the next loader
NextLoader(t) ==
    IF Resources[tpc[t].res] = "cf"
    THEN [tpc EXCEPT ![t].stage = "lookup"]
    ELSE [tpc EXCEPT ![t].res = @ + 1, ![t].stage = "check"]

\* if not enabled or loaded: return
CheckLoaded(t) ==
    /\ At(t, "check")
    /\ LET r == Resources[tpc[t].res]
       IN tpc' = IF ~LoaderEnabled(req, r) \/ loaded[r]
                 THEN NextLoader(t)
                 ELSE [tpc EXCEPT ![t].stage = "set"]
    /\ UNCHANGED <<req, engineVars, rankVars, userVars, loadStarts, fileVars, recordVars, auxVars>>

\* self.cf_loaded = True (resp. _hf_loaded, _reranker_loaded)
MarkLoaded(t) ==
    /\ At(t, "set")
    /\ loaded' = [loaded EXCEPT ![Resources[tpc[t].res]] = TRUE]
    /\ tpc' = [tpc EXCEPT ![t].stage = "load"]
    /\ UNCHANGED <<req, backend, rankVars, userVars, loadStarts, fileVars, recordVars, auxVars>>

\* the load is entered; the CF loader returns when the snapshot is absent
BeginLoad(t) ==
    /\ At(t, "load")
    /\ LET r == Resources[tpc[t].res]
       IN IF r = "cf" /\ req.cfFile # "ok"
          THEN tpc' = NextLoader(t) /\ UNCHANGED loadStarts
          ELSE /\ tpc' = [tpc EXCEPT ![t].stage = "loading"]
               /\ loadStarts' = [loadStarts EXCEPT ![r] = @ + 1]
    /\ UNCHANGED <<req, engineVars, rankVars, userVars, fileVars, recordVars, auxVars>>

\* the load returns or raises, the backend attribute is assigned
EndLoad(t) ==
    /\ At(t, "loading")
    /\ backend' = [backend EXCEPT ![Resources[tpc[t].res]] =
                      LoadResult(req, Resources[tpc[t].res])]
    /\ tpc' = NextLoader(t)
    /\ UNCHANGED <<req, loaded, rankVars, userVars, loadStarts, fileVars, recordVars, auxVars>>

\* the rest of _cf_neighbors_for_tmdb: if not self.cf_model: return set()
CfLookup(t) ==
    /\ At(t, "lookup")
    /\ tpc' = [tpc EXCEPT
                  ![t].neighbors = <<CfNeighborsForTmdb(
                                        req.seed, [loaded |-> loaded, backend |-> backend],
                                        CfTopN)>>,
                  ![t].res = @ + 1,
                  ![t].stage = "check"]
    /\ UNCHANGED <<req, engineVars, rankVars, userVars, loadStarts, fileVars, recordVars, auxVars>>

LoadRequest(rq) ==
    \E hf \in {"disabled", "ok", "unavailable"} :
    \E rerank \in {"disabled", "ok", "unavailable"} :
    \E cf \in {"absent", "ok"} :
        rq = Request({2, 3}, <<>>, {}, {}, <<2, 3>>, "ok", <<3000, 400>>,
                     DefaultPairwise(<<2, 3>>), cf, "A", hf, rerank, AscScores, MaxN)

InitLoad ==
    /\ LoadRequest(req)
    /\ loaded = InitialEngine.loaded
    /\ backend = InitialEngine.backend
    /\ RankIdle
    /\ UserIdle
    /\ LoadIdle
    /\ FileIdle
    /\ RecordIdle
    /\ AuxIdle

NextLoad ==
    \E t \in Threads :
        CheckLoaded(t) \/ MarkLoaded(t) \/ BeginLoad(t) \/ EndLoad(t) \/ CfLookup(t)

SpecLoad == InitLoad /\ [][NextLoad]_vars

----------------------------------------------------------------------------
(* Concurrent save_user_profile and load_user_profile on one user's file, *)
(* one system call at a time.  A file content is a sequence of chunks      *)
(* <<profile, position>>; every saver writes through its own descriptor.   *)

\* size of the profile saver p was given; 0 is the profile saved before the run
ChunksOf(p) == IF p = 0 THEN MaxChunks ELSE 1 + ((p + 1) % MaxChunks)

\* json.dump(profile): the chunks reaching the file in order
Serialize(p) == [i \in 1..ChunksOf(p) |-> <<p, i>>]

Hole == <<-1, 0>>

\* write(fd, chunk) at the descriptor's offset
WriteAt(content, off, chunk) ==
    IF off < Len(content) THEN [content EXCEPT ![off + 1] = chunk]
    ELSE content \o [i \in 1..(off - Len(content)) |-> Hole] \o <<chunk>>

\* json.load succeeds on the complete serialization of a saved profile
Complete(data) == \E p \in {0} \cup Writers : data = Serialize(p)

OtherVarsFile == <<req, engineVars, rankVars, userVars, loadVars, recordVars, auxVars>>

\* open(tmp_path, 'w'): truncate the file at the path or create it, or
\* raise OSError
SaveOpen(w) ==
    /\ wr[w].pc = "start"
    /\ \/ IF files.tmp # 0
          THEN /\ inodes' = [inodes EXCEPT ![files.tmp] = <<>>]
               /\ wr' = [wr EXCEPT ![w].pc = "writing", ![w].fd = files.tmp, ![w].off = 0]
               /\ UNCHANGED files
          ELSE /\ inodes' = Append(inodes, <<>>)
               /\ files' = [files EXCEPT !.tmp = Len(inodes) + 1]
               /\ wr' = [wr EXCEPT ![w].pc = "writing", ![w].fd = Len(inodes) + 1,
                                   ![w].off = 0]
       \/ /\ wr' = [wr EXCEPT ![w].pc = "cleanup", ![w].failed = "open"]
          /\ UNCHANGED <<files, inodes>>
    /\ UNCHANGED <<rd, OtherVarsFile>>

\* one chunk of json.dump reaches the file; after the last one flush,
\* fsync and close follow.  The write, the flush or the fsync may raise.
SaveWrite(w) ==
    /\ wr[w].pc = "writing"
    /\ \/ /\ inodes' = [inodes EXCEPT
                           ![wr[w].fd] = WriteAt(@, wr[w].off, <<w, wr[w].off + 1>>)]
          /\ wr' = [wr EXCEPT
                       ![w].off = @ + 1,
                       ![w].pc = IF wr[w].off + 1 = ChunksOf(w) THEN "replace" ELSE "writing"]
       \/ /\ wr' = [wr EXCEPT ![w].pc = "cleanup", ![w].failed = "write"]
          /\ UNCHANGED inodes
    /\ UNCHANGED <<files, rd, OtherVarsFile>>

\* os.replace(tmp_path, profile_path); raises when tmp_path is gone, and
\* may raise for a reason of the file system
SaveReplace(w) ==
    /\ wr[w].pc = "replace"
    /\ \/ /\ files.tmp # 0
          /\ files' = [files EXCEPT !.profile = files.tmp, !.tmp = 0]
          /\ wr' = [wr EXCEPT ![w].pc = "done"]
       \/ /\ wr' = [wr EXCEPT ![w].pc = "cleanup", ![w].failed = "replace"]
          /\ UNCHANGED files
    /\ UNCHANGED <<inodes, rd, OtherVarsFile>>

\* the except branch without the removal
SaveCleanupLeavesTmp(w) ==
    /\ wr[w].pc = "cleanup"
    /\ wr' = [wr EXCEPT ![w].pc = "done"]
    /\ UNCHANGED <<files, inodes, rd, OtherVarsFile>>

\* the except branch: remove tmp_path when it exists; an exception of the
\* removal is swallowed
SaveCleanup(w) ==
    /\ wr[w].pc = "cleanup"
    /\ IF files.tmp = 0
       THEN /\ wr' = [wr EXCEPT ![w].pc = "done", ![w].cleanup = "nothing"]
            /\ UNCHANGED files
       ELSE \/ /\ files' = [files EXCEPT !.tmp = 0]
               /\ wr' = [wr EXCEPT ![w].pc = "done", ![w].cleanup = "removed"]
            \/ /\ wr' = [wr EXCEPT ![w].pc = "done", ![w].cleanup = "remove_failed"]
               /\ UNCHANGED files
    /\ UNCHANGED <<inodes, rd, OtherVarsFile>>

\* os.path.exists(profile_path) and open(profile_path, 'r')
LoadOpen ==
    /\ rd.pc = "idle"
    /\ rd' = IF files.profile = 0
             THEN [rd EXCEPT !.pc = "done", !.result = "empty"]
             ELSE [rd EXCEPT !.pc = "opened", !.fd = files.profile]
    /\ UNCHANGED <<files, inodes, wr, OtherVarsFile>>

\* json.load(f): read the file and decode it
LoadRead ==
    /\ rd.pc = "opened"
    /\ rd' = [rd EXCEPT !.data = inodes[rd.fd],
                        !.pc = IF Complete(inodes[rd.fd]) THEN "done" ELSE "quarantine",
                        !.result = IF Complete(inodes[rd.fd]) THEN "data" ELSE "none"]
    /\ UNCHANGED <<files, inodes, wr, OtherVarsFile>>

\* except JSONDecodeError: move the file at profile_path to .corrupt and
\* return an empty profile
LoadQuarantine ==
    /\ rd.pc = "quarantine"
    /\ files' = IF files.profile # 0
                THEN [files EXCEPT !.corrupt = files.profile, !.profile = 0]
                ELSE [files EXCEPT !.corrupt = 0]
    /\ rd' = [rd EXCEPT !.pc = "done", !.result = "empty"]
    /\ UNCHANGED <<inodes, wr, OtherVarsFile>>

\* no recommendation request is involved in the file operations
NoRequest ==
    Request({}, <<>>, {}, {}, <<>>, "ok", <<>>, <<>>, "absent", "A", "disabled",
            "disabled", AscScores, 1)

InitFile ==
    /\ req = NoRequest
    /\ loaded = InitialEngine.loaded
    /\ backend = InitialEngine.backend
    /\ RankIdle
    /\ UserIdle
    /\ LoadIdle
    /\ inodes = <<Serialize(0)>>
    /\ files \in {[profile |-> 0, tmp |-> 0, corrupt |-> 0],
                  [profile |-> 1, tmp |-> 0, corrupt |-> 0]}
    /\ wr = [w \in Writers |-> NewSaver]
    /\ rd = [pc |-> "idle", fd |-> 0, data |-> <<>>, result |-> "none"]
    /\ RecordIdle
    /\ AuxIdle

NextFile ==
    \/ \E w \in Writers : SaveOpen(w) \/ SaveWrite(w) \/ SaveReplace(w) \/ SaveCleanup(w)
    \/ LoadOpen
    \/ LoadRead
    \/ LoadQuarantine

SpecFile == InitFile /\ [][NextFile]_vars

----------------------------------------------------------------------------
(* load_user_profile and the tracking operations on a persisted record    *)
(* that may be damaged.  record_state tells what the profile path holds:  *)
(*   "absent"       no file                                               *)
(*   "valid"        a JSON object, user_profile (members may be missing)  *)
(*   "truncated"    text that is not JSON: json.load raises               *)
(*                  JSONDecodeError                                       *)
(*   "undecodable"  bytes that are not text: reading raises               *)
(*                  UnicodeDecodeError                                    *)
(*   "not_object"   the JSON value null: the membership test raises       *)
(*                  TypeError                                             *)

ViewedCap == 100

\* s[-n:]
Last(s, n) == IF Len(s) <= n THEN s ELSE SubSeq(s, Len(s) - n + 1, Len(s))

\* what user_profile is while the file holds no JSON object
Unparsed == [raw |-> "bytes"]

\* a JSON object written by something else than _empty_profile: no "viewed"
\* and no "preferences" member
DamagedObject == [ratings |-> [k \in {"5"} |-> 5], liked |-> <<>>]

Disk(state, data, q) == [state |-> state, data |-> data, quarantine |-> q]

\* if 'disliked' not in data: data['disliked'] = [], the same for 'liked'
WithFeedbackKeys(data) ==
    [k \in DOMAIN data \cup {"disliked", "liked"} |->
        IF k \in DOMAIN data THEN data[k] ELSE <<>>]

\* load_user_profile: the profile returned and what is left on disk; no
\* exception leaves the function
load_user_profile(disk) ==
    CASE disk.state = "valid" ->
            [profile |-> WithFeedbackKeys(disk.data), disk |-> disk]
      [] disk.state = "truncated" ->
            [profile |-> EmptyProfile, disk |-> Disk("absent", Unparsed, "truncated")]
      [] OTHER ->
            [profile |-> EmptyProfile, disk |-> disk]

\* save_user_profile with a working file system
save_user_profile(disk, profile) == Disk("valid", profile, disk.quarantine)

TrailerCap == 50
SearchCap == 50

\* now is the value of datetime.now() at the call
track_view(profile, movie_id, now) ==
    [profile EXCEPT !.viewed =
        Last(Append(@, [movie_id |-> movie_id, timestamp |-> now]), ViewedCap)]

track_trailer_click(profile, movie_id, now) ==
    [profile EXCEPT !.clicked_trailers =
        Last(Append(@, [movie_id |-> movie_id, timestamp |-> now]), TrailerCap)]

\* the oldest entries kept instead of the newest
TrackSearchKeepsOldest(profile, query, now) ==
    [profile EXCEPT !.searches =
        Take(Append(@, [query |-> query, timestamp |-> now]), SearchCap)]

track_search(profile, query, now) ==
    [profile EXCEPT !.searches =
        Last(Append(@, [query |-> query, timestamp |-> now]), SearchCap)]

add_to_watchlist(profile, movie_id) ==
    IF movie_id \in Range(profile.watchlist) THEN profile
    ELSE [profile EXCEPT !.watchlist = Append(@, movie_id)]

\* list.remove: the first occurrence
remove_from_watchlist(profile, movie_id) ==
    IF movie_id \notin Range(profile.watchlist) THEN profile
    ELSE LET i == CHOOSE k \in 1..Len(profile.watchlist) :
                      /\ profile.watchlist[k] = movie_id
                      /\ \A j \in 1..(k - 1) : profile.watchlist[j] # movie_id
         IN [profile EXCEPT !.watchlist = SubSeq(@, 1, i - 1) \o SubSeq(@, i + 1, Len(@))]

TheDisk == Disk(record_state, user_profile, quarantine)

RecordStep(op, disk, exc, ret) ==
    /\ opCount < MaxOps
    /\ opCount' = opCount + 1
    /\ lastOp' = op
    /\ record_state' = disk.state
    /\ user_profile' = disk.data
    /\ quarantine' = disk.quarantine
    /\ raised' = exc
    /\ returned' = ret
    /\ UNCHANGED <<req, engineVars, rankVars, base_recs, personalized, rated_ids,
                   loadVars, fileVars, auxVars>>

\* a tracking operation after its load: when the profile has the members the
\* operation subscripts, the changed profile is saved; otherwise the
\* subscript raises KeyError before anything is written
TrackStep(op, l, needed, changed) ==
    IF needed \subseteq DOMAIN l.profile
    THEN RecordStep(op, save_user_profile(l.disk, changed), "none", <<>>)
    ELSE RecordStep(op, l.disk, "KeyError", <<>>)

LoadUserProfile ==
    LET l == load_user_profile(TheDisk)
    IN RecordStep("load_user_profile", l.disk, "none", <<l.profile>>)

TrackView ==
    \E movie_id \in {2, 3} :
        LET l == load_user_profile(TheDisk)
        IN TrackStep("track_view", l, {"viewed"}, track_view(l.profile, movie_id, opCount + 1))

TrackNotInterestedOnRecord ==
    \E movie_id \in {2} :
        LET l == load_user_profile(TheDisk)
        IN TrackStep("track_not_interested", l, {},
                     track_not_interested(l.profile, movie_id))

TrackRatingOnRecord ==
    \E rating \in {3, 5} :
        LET l == load_user_profile(TheDisk)
        IN TrackStep("track_rating", l,
                     IF rating >= LearnFromRating
                     THEN {"ratings", "preferences"} ELSE {"ratings"},
                     track_rating(l.profile, 3, rating, <<MovieData(3)>>))

InitRecord ==
    /\ req = NoRequest
    /\ loaded = InitialEngine.loaded
    /\ backend = InitialEngine.backend
    /\ RankIdle
    /\ LoadIdle
    /\ FileIdle
    /\ AuxIdle
    /\ \/ record_state = "absent" /\ user_profile = Unparsed
       \/ record_state = "valid" /\ user_profile \in {EmptyProfile, HeavyProfile, DamagedObject}
       \/ record_state \in {"truncated", "undecodable", "not_object"} /\ user_profile = Unparsed
    /\ quarantine \in {"none", "stale"}
    /\ raised = "none"
    /\ returned = <<>>
    /\ lastOp = "none"
    /\ base_recs = <<>>
    /\ personalized = <<>>
    /\ opCount = 0
    /\ rated_ids = {}

NextRecord ==
    LoadUserProfile \/ TrackView \/ TrackNotInterestedOnRecord \/ TrackRatingOnRecord

SpecRecord == InitRecord /\ [][NextRecord]_vars

----------------------------------------------------------------------------
(* movielens.py: the offline builder of the similarity snapshot.  A ratings *)
(* table is a sequence of rows [userId, movieId, rating]; links maps a      *)
(* MovieLens id to a TMDb id, 0 standing for a missing (NaN) one.  Scores   *)
(* are squared cosines in 1/10000: ratings are positive, so the order of    *)
(* the squares is the order of the cosines.                                 *)

MaxTopK == 2

MlMovies == {11, 12, 13}
MlUsers == {1, 2}

\* pandas unique(): the values in order of first appearance
RECURSIVE Unique(_)
Unique(s) ==
    IF s = <<>> THEN <<>>
    ELSE LET r == Unique(SubSeq(s, 1, Len(s) - 1))
         IN IF s[Len(s)] \in Range(r) THEN r ELSE Append(r, s[Len(s)])

\* {value: i for i, value in enumerate(values)}
Enumerate(u) == [x \in Range(u) |-> (CHOOSE i \in 1..Len(u) : u[i] = x) - 1]

build_tmdb_mapping(links) ==
    LET clean == {m \in DOMAIN links : links[m] # 0}
    IN [movie_to_tmdb |-> [m \in clean |-> links[m]],
        tmdb_to_movie |-> [t \in {links[m] : m \in clean} |->
                              CHOOSE m \in clean : links[m] = t]]

\* a function as the table of its values
Table(f) == f @@ <<>>

\* the item-by-user matrix as rows 0..n-1 of columns 0..m-1; a pair without
\* a rating holds 0 (the tables here rate a pair at most once)
build_item_user_matrix(ratings) ==
    LET item_index == Table(Enumerate(Unique([k \in 1..Len(ratings) |-> ratings[k].movieId])))
        user_index == Table(Enumerate(Unique([k \in 1..Len(ratings) |-> ratings[k].userId])))
        At2(i, u) == {k \in 1..Len(ratings) : /\ item_index[ratings[k].movieId] = i
                                              /\ user_index[ratings[k].userId] = u}
    IN [mat |-> Table([i \in 0..(Cardinality(DOMAIN item_index) - 1) |->
                    Table([u \in 0..(Cardinality(DOMAIN user_index) - 1) |->
                        IF At2(i, u) = {} THEN 0
                        ELSE ratings[CHOOSE k \in At2(i, u) : TRUE].rating])]),
        item_index |-> item_index,
        user_index |-> user_index]

RECURSIVE SumOf(_, _)
SumOf(f, S) ==
    IF S = {} THEN 0
    ELSE LET x == CHOOSE y \in S : TRUE IN f[x] + SumOf(f, S \ {x})

\* dots = block * item_user_T, for all blocks: the products of every two rows
Dots(item_user) ==
    Table([i \in DOMAIN item_user |->
        Table([j \in DOMAIN item_user |->
            SumOf(Table([u \in DOMAIN item_user[i] |-> item_user[i][u] * item_user[j][u]]),
                  DOMAIN item_user[i])])])

\* vals / (norms[global_row] * norms[idx]), squared
Cosine2(dots, i, j) == (dots[i][j] * dots[i][j] * 10000) \div (dots[i][i] * dots[j][j])

\* the stored entries of a row of dots, the row's own index among them
NeighborsOfRowWithSelf(dots, i) == {j \in DOMAIN dots : dots[i][j] # 0}

\* idx[mask]: the stored entries of a row of dots without the row's own index
NeighborsOfRow(dots, i) == {j \in DOMAIN dots : dots[i][j] # 0 /\ j # i}

\* idx[np.argsort(-sims)]: numpy gives no order among equal scores, tie says
\* which of the two orders the sort produced
RECURSIVE SortNeighbors(_, _, _, _)
SortNeighbors(dots, i, idx, tie) ==
    IF idx = {} THEN <<>>
    ELSE LET Before(a, b) ==
                 \/ Cosine2(dots, i, a) > Cosine2(dots, i, b)
                 \/ /\ Cosine2(dots, i, a) = Cosine2(dots, i, b)
                    /\ IF tie = "low" THEN a <= b ELSE a >= b
             j == CHOOSE a \in idx : \A b \in idx : Before(a, b)
         IN <<j>> \o SortNeighbors(dots, i, idx \ {j}, tie)

compute_item_similarities_blockwise(item_user, top_k, tie) ==
    LET dots == Dots(item_user)
        order == Table([i \in DOMAIN item_user |->
                     SortNeighbors(dots, i, NeighborsOfRow(dots, i), tie)])
    IN [top_indices |-> [i \in DOMAIN item_user |->
                            [s \in 1..top_k |-> IF s <= Len(order[i]) THEN order[i][s] ELSE 0]],
        top_scores |-> [i \in DOMAIN item_user |->
                            [s \in 1..top_k |-> IF s <= Len(order[i])
                                                THEN Cosine2(dots, i, order[i][s])
                                                ELSE 0]]]

\* every id is kept: the pruning by min_item_ratings left out
KeepAllIds(valid, min_item_ratings) == {valid[k].movieId : k \in 1..Len(valid)}

\* counts[counts >= min_item_ratings].index, or every id when the threshold
\* is 1 or less
KeepIds(valid, min_item_ratings) ==
    IF min_item_ratings > 1
    THEN {m \in {valid[k].movieId : k \in 1..Len(valid)} :
            Cardinality({k \in 1..Len(valid) : valid[k].movieId = m}) >= min_item_ratings}
    ELSE {valid[k].movieId : k \in 1..Len(valid)}

\* build_and_save_cf_model up to the payload handed to save_similarity_model;
\* <<>> is the return of None before anything is built
build_and_save_cf_model(inp) ==
    LET maps == build_tmdb_mapping(inp.links)
        linked == SelectSeq(inp.ratings, LAMBDA r : r.movieId \in DOMAIN maps.movie_to_tmdb)
        keep == KeepIds(linked, inp.min_item_ratings)
        valid == SelectSeq(linked, LAMBDA r : r.movieId \in keep)
        built == build_item_user_matrix(valid)
        tables == compute_item_similarities_blockwise(built.mat, inp.top_k, inp.tie)
    IN IF valid = <<>> THEN <<>>
       ELSE <<[item_index |-> built.item_index,
               user_index |-> built.user_index,
               top_indices |-> tables.top_indices,
               top_scores |-> tables.top_scores,
               index_to_movieId |-> [i \in DOMAIN built.mat |->
                                        CHOOSE m \in DOMAIN built.item_index :
                                            built.item_index[m] = i],
               movieId_to_tmdbId |-> maps.movie_to_tmdb,
               tmdbId_to_movieId |-> maps.tmdb_to_movie]>>

\* pickle.dump: a dict as its key/value pairs, an array as its shape and its
\* elements row by row, a list as its elements
PickleDict(d) == [k \in 1..Cardinality(DOMAIN d) |->
                    <<SetToSeq(DOMAIN d)[k], d[SetToSeq(DOMAIN d)[k]]>>]

PickleArray(a) ==
    LET rows == Cardinality(DOMAIN a)
        cols == Len(a[0])
    IN [shape |-> <<rows, cols>>,
        data |-> [k \in 1..(rows * cols) |-> a[(k - 1) \div cols][((k - 1) % cols) + 1]]]

PickleList(l) == [k \in 1..Cardinality(DOMAIN l) |-> l[k - 1]]

Pickle(payload) ==
    [item_index |-> PickleDict(payload.item_index),
     user_index |-> PickleDict(payload.user_index),
     top_indices |-> PickleArray(payload.top_indices),
     top_scores |-> PickleArray(payload.top_scores),
     index_to_movieId |-> PickleList(payload.index_to_movieId),
     movieId_to_tmdbId |-> PickleDict(payload.movieId_to_tmdbId),
     tmdbId_to_movieId |-> PickleDict(payload.tmdbId_to_movieId)]

\* pickle.load
UnpickleDict(pairs) ==
    [k \in {pairs[n][1] : n \in 1..Len(pairs)} |->
        pairs[CHOOSE n \in 1..Len(pairs) : pairs[n][1] = k][2]]

\* the elements read column by column
UnpickleArrayByColumn(b) ==
    [i \in 0..(b.shape[1] - 1) |->
        [s \in 1..b.shape[2] |-> b.data[(s - 1) * b.shape[1] + i + 1]]]

UnpickleArray(b) ==
    [i \in 0..(b.shape[1] - 1) |->
        [s \in 1..b.shape[2] |-> b.data[i * b.shape[2] + s]]]

UnpickleList(s) == [i \in 0..(Len(s) - 1) |-> s[i + 1]]

Unpickle(bytes) ==
    [item_index |-> UnpickleDict(bytes.item_index),
     user_index |-> UnpickleDict(bytes.user_index),
     top_indices |-> UnpickleArray(bytes.top_indices),
     top_scores |-> UnpickleArray(bytes.top_scores),
     index_to_movieId |-> UnpickleList(bytes.index_to_movieId),
     movieId_to_tmdbId |-> UnpickleDict(bytes.movieId_to_tmdbId),
     tmdbId_to_movieId |-> UnpickleDict(bytes.tmdbId_to_movieId)]

\* movielens_cf.save_similarity_model: the payload from its positional
\* arguments
CompatPayload(ii, ui, ti, ts, i2m, m2t, t2m) ==
    [item_index |-> ii, user_index |-> ui, top_indices |-> ti, top_scores |-> ts,
     index_to_movieId |-> i2m, movieId_to_tmdbId |-> m2t, tmdbId_to_movieId |-> t2m]

OtherVarsBuild == <<req, engineVars, rankVars, userVars, loadVars, fileVars, recordVars,
                    featureVars, trackVars>>

\* build_and_save_cf_model(ratings, links, model_path, top_k, min_item_ratings)
BuildAndSave ==
    /\ build_result = "not_run"
    /\ LET payload == build_and_save_cf_model(ml_input)
       IN /\ build_result' = IF payload = <<>> THEN "none" ELSE "saved"
          /\ snapshot_file' = IF payload = <<>> THEN snapshot_file
                              ELSE <<Pickle(payload[1])>>
          /\ saved_payload' = payload
    /\ UNCHANGED <<ml_input, loaded_model, OtherVarsBuild>>

\* load_similarity_model(model_path)
LoadSnapshot ==
    /\ snapshot_file # <<>>
    /\ loaded_model = <<>>
    /\ loaded_model' = <<Unpickle(snapshot_file[1])>>
    /\ UNCHANGED <<ml_input, snapshot_file, build_result, saved_payload, OtherVarsBuild>>

\* movielens_cf.save_similarity_model(model_path, item_index, ...) with the
\* parts of the loaded model
SaveCompat ==
    /\ loaded_model # <<>>
    /\ build_result = "saved"
    /\ LET m == loaded_model[1]
           payload == CompatPayload(m.item_index, m.user_index, m.top_indices,
                                    m.top_scores, m.index_to_movieId,
                                    m.movieId_to_tmdbId, m.tmdbId_to_movieId)
       IN /\ snapshot_file' = <<Pickle(payload)>>
          /\ saved_payload' = <<payload>>
    /\ build_result' = "resaved"
    /\ loaded_model' = <<>>
    /\ UNCHANGED <<ml_input, OtherVarsBuild>>

\* the rows of ratings.csv: by user, then by movie
RatingRows(r) ==
    LET cells == SelectSeq(
            [k \in 1..(Cardinality(MlUsers) * Cardinality(MlMovies)) |->
                <<SetToSeq(MlUsers)[((k - 1) \div Cardinality(MlMovies)) + 1],
                  SetToSeq(MlMovies)[((k - 1) % Cardinality(MlMovies)) + 1]>>],
            LAMBDA c : r[c] # 0)
    IN [k \in 1..Len(cells) |->
           [userId |-> cells[k][1], movieId |-> cells[k][2], rating |-> r[cells[k]]]]

InitBuild ==
    /\ req = NoRequest
    /\ loaded = InitialEngine.loaded
    /\ backend = InitialEngine.backend
    /\ RankIdle
    /\ UserIdle
    /\ LoadIdle
    /\ FileIdle
    /\ RecordIdle
    /\ FeatureIdle
    /\ TrackIdle
    /\ \E r \in [MlUsers \X MlMovies -> 0..2] :
       \E unlinked \in {{}, {13}} :
       \E top_k \in 1..MaxTopK :
       \E min_item_ratings \in {1, 2, 5} :
       \E tie \in {"low", "high"} :
           ml_input = [ratings |-> RatingRows(r),
                       links |-> [m \in MlMovies |-> IF m \in unlinked THEN 0 ELSE m - 10],
                       top_k |-> top_k, min_item_ratings |-> min_item_ratings,
                       tie |-> tie]
    /\ snapshot_file = <<>>
    /\ build_result = "not_run"
    /\ loaded_model = <<>>
    /\ saved_payload = <<>>

NextBuild == BuildAndSave \/ LoadSnapshot \/ SaveCompat

SpecBuild == InitBuild /\ [][NextBuild]_vars

----------------------------------------------------------------------------
(* ai_recommender.py: create_feature_string.  A string is the sequence of  *)
(* its whitespace-separated tokens, so ' '.join is concatenation and the    *)
(* empty string is <<>>; a list field is a sequence of such strings.  A     *)
(* profile is <<>> (None) or <<p>> with p a record that may lack fields.    *)

\* ' '.join(items)
RECURSIVE Join(_)
Join(items) == IF items = <<>> THEN <<>> ELSE Head(items) \o Join(Tail(items))

\* ' '.join([s] * n)
RECURSIVE Repeat(_, _)
Repeat(s, n) == IF n = 0 THEN <<>> ELSE s \o Repeat(s, n - 1)

\* the field appended once whatever its weight
ListPartOnce(p, field, n) ==
    IF field \in DOMAIN p /\ p[field] # <<>> THEN Join(p[field]) ELSE <<>>

\* if profile.get(field): features.extend([' '.join(profile[field])] * n)
ListPart(p, field, n) ==
    IF field \in DOMAIN p /\ p[field] # <<>> THEN Repeat(Join(p[field]), n) ELSE <<>>

\* if profile.get('overview'): features.append(profile['overview'])
TextPart(p, field) == IF field \in DOMAIN p THEN p[field] ELSE <<>>

create_feature_string(profile) ==
    IF profile = <<>> THEN <<>>
    ELSE LET p == profile[1]
         IN ListPart(p, "genres", 3) \o ListPart(p, "director", 3)
            \o ListPart(p, "keywords", 2) \o ListPart(p, "ml_tags", 2)
            \o ListPart(p, "cast", 2) \o TextPart(p, "overview")
            \o ListPart(p, "crew", 1)

\* a record with the listed fields only
Fields(names, values) == [f \in names |-> values[f]]

FeatureProfiles ==
    {<<>>} \cup
    {<<Fields(present, [genres |-> g, director |-> d, keywords |-> k, ml_tags |-> t,
                        cast |-> c, overview |-> o, crew |-> w])>> :
        present \in {{"genres", "director", "keywords", "ml_tags", "cast", "overview", "crew"},
                     {"genres", "director", "cast", "crew"},
                     {"overview", "keywords"}},
        g \in {<<>>, <<<<"scifi">>, <<"adventure">>>>},
        d \in {<<>>, <<<<"christopher", "nolan">>>>},
        k \in {<<>>, <<<<"space">>, <<"time", "travel">>>>},
        t \in {<<>>, <<<<"space">>>>},
        c \in {<<>>, <<<<"anne", "hathaway">>, <<"michael", "caine">>>>},
        o \in {<<>>, <<"a", "crew", "in", "space">>},
        w \in {<<>>, <<<<"nolan">>>>}}

CreateFeatureString ==
    /\ feature_string = <<>>
    /\ feature_string' = <<create_feature_string(feature_profile)>>
    /\ UNCHANGED <<feature_profile, req, engineVars, rankVars, userVars, loadVars,
                   fileVars, recordVars, buildVars, trackVars>>

InitFeature ==
    /\ req = NoRequest
    /\ loaded = InitialEngine.loaded
    /\ backend = InitialEngine.backend
    /\ RankIdle
    /\ UserIdle
    /\ LoadIdle
    /\ FileIdle
    /\ RecordIdle
    /\ BuildIdle
    /\ TrackIdle
    /\ feature_profile \in FeatureProfiles
    /\ feature_string = <<>>

NextFeature == CreateFeatureString

SpecFeature == InitFeature /\ [][NextFeature]_vars

----------------------------------------------------------------------------
(* Claims about the hybrid scorer and the MMR selection *)

\* the similarities the finished request was scored with
UsedSimilarities == Similarities(req, [loaded |-> loaded, backend |-> backend])

Returned(id) == \E k \in 1..Len(recommendations) : recommendations[k].id = id

\* position of an id in a list of entries with a profile, 0 when absent
PosIn(list, id) ==
    IF \E k \in 1..Len(list) : list[k].profile.id = id
    THEN CHOOSE k \in 1..Len(list) : list[k].profile.id = id
    ELSE 0

\* no returned item is a candidate whose raw similarity is below the floor
NoReturnedBelowFloor ==
    \A i \in 1..Len(candidate_profiles) :
        Returned(candidate_profiles[i].id) => UsedSimilarities[i] >= NoiseFloor

\* C1 as stated: for every seed, provider response and vectorization
\* outcome, no candidate whose raw similarity to the seed is below 0.03 is
\* in the list returned by get_intelligent_recommendations.
C1_FilterInvariantAlways == pcR = "done" => NoReturnedBelowFloor

\* C1 amended: when the similarity computation does not raise, no candidate
\* whose raw similarity is below 0.03 is returned, whatever its boosts; when
\* it raises, the returned list is made of CF neighbours of the seed, each
\* reported with similarity 0.0.
C1_FilterInvariantUnlessFallback ==
    pcR = "done" =>
        /\ path # "fallback" => NoReturnedBelowFloor
        /\ path = "fallback" =>
              \A k \in 1..Len(recommendations) :
                  /\ recommendations[k].id \in cf_neighbors
                  /\ recommendations[k].similarity_score = 0

\* C1 witness: a completed main-path request whose pool holds a candidate
\* below the floor that is a CF neighbour with the rating boost, next to
\* returned candidates.
C1_Witness ==
    /\ pcR = "done" /\ path = "main" /\ recommendations # <<>>
    /\ \E i \in 1..Len(candidate_profiles) :
          /\ UsedSimilarities[i] < NoiseFloor
          /\ candidate_profiles[i].id \in cf_neighbors
          /\ candidate_profiles[i].vote_average >= RatingBoostFrom

\* the neighbour set of the seed read off the model's tables: the ids
\* linked to the rows stored with a positive score in the seed's row
NeighborsInModel(model, tmdb_id) ==
    IF tmdb_id \notin DOMAIN model.tmdbId_to_movieId
          \/ model.tmdbId_to_movieId[tmdb_id] \notin DOMAIN model.item_index
    THEN {}
    ELSE LET ml == model.tmdbId_to_movieId[tmdb_id]
             row == model.item_index[ml]
         IN {model.movieId_to_tmdbId[model.index_to_movieId[model.top_indices[row][j]]] :
                j \in {a \in DOMAIN model.top_scores[row] :
                          /\ model.top_scores[row][a] > 0
                          /\ model.index_to_movieId[model.top_indices[row][a]] # ml}}

SeedNeighbors == IF backend.cf = <<>> THEN {} ELSE NeighborsInModel(backend.cf[1], req.seed)

CfBoostOf(m) == m.final_score - FinalScore(m.profile, m.similarity_score, {})

\* C4: a scored candidate carries the +0.05 collaborative boost exactly when
\* its id is in the seed's neighbour set of the loaded model, and no
\* candidate carries it when no model is loaded.
C4_CfBoostIffNeighbor ==
    (pcR = "done" /\ path = "main") =>
        \A k \in 1..Len(scored_movies) :
            /\ CfBoostOf(scored_movies[k]) =
                  (IF scored_movies[k].profile.id \in SeedNeighbors THEN CfBoost ELSE 0)
            /\ backend.cf = <<>> => CfBoostOf(scored_movies[k]) = 0

\* C4 witness: a model is loaded and the scored list holds both a neighbour
\* of the seed and a candidate that is not one.
C4_Witness ==
    /\ pcR = "done" /\ path = "main" /\ backend.cf # <<>>
    /\ \E k \in 1..Len(scored_movies) : scored_movies[k].profile.id \in SeedNeighbors
    /\ \E k \in 1..Len(scored_movies) : scored_movies[k].profile.id \notin SeedNeighbors

SharesBothGenres(p) == Range(Details(req.seed).genres) \subseteq Range(p.genres)
SharesNoGenre(p) == Range(Details(req.seed).genres) \cap Range(p.genres) = {}

\* candidate A of the scenario: both genres of the seed, voteAverage 8.5
IsA(i) == SharesBothGenres(candidate_profiles[i]) /\ candidate_profiles[i].vote_average = 85
\* candidate B: no genre of the seed, voteAverage 5.0, raw similarity 0.04
IsB(j) ==
    /\ SharesNoGenre(candidate_profiles[j])
    /\ candidate_profiles[j].vote_average = 50
    /\ UsedSimilarities[j] = 400

NoCfNoPersonalization == pcR = "done" /\ path = "main" /\ backend.cf = <<>>

\* C5 as stated: with no CF model and no personalization, A is placed before
\* B in the returned list, for every other content of the pool.
C5_ABeforeBReturned ==
    NoCfNoPersonalization =>
        \A i, j \in 1..Len(candidate_profiles) :
            (IsA(i) /\ IsB(j) /\ Returned(candidate_profiles[j].id)) =>
                /\ Returned(candidate_profiles[i].id)
                /\ PosIn(recommendations, candidate_profiles[i].id)
                      < PosIn(recommendations, candidate_profiles[j].id)

\* C5 amended: with no CF model and no personalization, when A's raw
\* similarity is at least 0.03, A's finalScore is strictly greater than B's
\* and A is placed before B in the candidate list sorted by finalScore (the
\* MMR selection may still return B before A, or B without A).
C5_ABeforeBScored ==
    NoCfNoPersonalization =>
        \A i, j \in 1..Len(candidate_profiles) :
            (IsA(i) /\ IsB(j) /\ UsedSimilarities[i] >= NoiseFloor) =>
                LET a == PosIn(scored_movies, candidate_profiles[i].id)
                    b == PosIn(scored_movies, candidate_profiles[j].id)
                IN /\ 0 < a /\ a < b
                   /\ scored_movies[a].final_score > scored_movies[b].final_score

\* C5 witness: A passed the floor with the lowest raw similarity, B is in
\* the pool, and the returned list holds B without A before it.
C5_Witness ==
    /\ NoCfNoPersonalization
    /\ \E i, j \in 1..Len(candidate_profiles) :
          /\ IsA(i) /\ IsB(j) /\ UsedSimilarities[i] = 400
          /\ Returned(candidate_profiles[j].id)
          /\ ~(/\ Returned(candidate_profiles[i].id)
               /\ PosIn(recommendations, candidate_profiles[i].id)
                     < PosIn(recommendations, candidate_profiles[j].id))

\* the entries picked by MMR under relevance weight lam, for n results
MmrPicked(lam, n) ==
    LET sel == MmrSelect(lam, reranked, candidate_profiles, req.pairwise, n)
    IN [k \in 1..Len(sel) |-> reranked[sel[k]]]

\* C6: with lambda = 1 the MMR selection over the scored list returns, for
\* every N, the first N entries of that list sorted by descending
\* finalScore with ties kept in input order.
C6_LambdaOneIsTopN ==
    (pcR = "done" /\ path = "main") =>
        \A n \in 1..(MaxPool + 1) :
            MmrPicked(10, n) = Take(SortByFinalScore(reranked), n)

\* C6 witness: a scored list with two entries of equal finalScore on which
\* the selection under the code's lambda differs from the sorted top N.
C6_Witness ==
    /\ pcR = "done" /\ path = "main"
    /\ \E a, b \in 1..Len(reranked) :
          a # b /\ reranked[a].final_score = reranked[b].final_score
    /\ final_list # Take(SortByFinalScore(reranked), req.num_recommendations)

\* max similarity of scored entry si to the entries sel[1..k]
DivTo(si, sel, k) == Diversity(reranked, candidate_profiles, req.pairwise, si, SubSeq(sel, 1, k))

NearIdentical(a, b) ==
    PairwiseAt(req.pairwise, IdToIdx(candidate_profiles, reranked[a].profile.id),
               IdToIdx(candidate_profiles, reranked[b].profile.id)) >= 9000

\* C7: with lambda = 0 the MMR selection never picks two near-identical
\* candidates in consecutive steps while the pool still holds a candidate
\* whose maximum similarity to the already selected items is strictly lower.
C7_LambdaZeroAvoidsNearDuplicates ==
    (pcR = "done" /\ path = "main") =>
        LET sel == MmrSelect(0, reranked, candidate_profiles, req.pairwise, Len(reranked))
        IN \A k \in 2..Len(sel) :
              NearIdentical(sel[k - 1], sel[k]) =>
                  ~\E z \in (1..Len(reranked)) \ {sel[m] : m \in 1..k} :
                        DivTo(z, sel, k - 1) < DivTo(sel[k], sel, k - 1)

\* C7 witness: the pool holds two near-identical candidates, the first of
\* them is picked, a less similar alternative is available, and the
\* selection under lambda = 0 takes the alternative next.
C7_Witness ==
    /\ pcR = "done" /\ path = "main"
    /\ LET sel == MmrSelect(0, reranked, candidate_profiles, req.pairwise, Len(reranked))
       IN \E k \in 2..Len(sel) : \E y \in (1..Len(reranked)) \ {sel[m] : m \in 1..k} :
             /\ NearIdentical(sel[k - 1], y)
             /\ DivTo(sel[k], sel, k - 1) < DivTo(y, sel, k - 1)

----------------------------------------------------------------------------
(* Claims about the preference engine *)

PersonalizedDone == lastOp = "personalized"

\* C2 as stated: an item whose id is in the user's disliked set is never in
\* the list returned by get_personalized_recommendations.
C2_DislikedNeverReturned ==
    PersonalizedDone =>
        \A k \in 1..Len(personalized) :
            personalized[k].id \notin Range(user_profile.disliked)

\* C3: after any sequence of track_rating calls, the list returned by
\* get_personalized_recommendations holds no item the user has rated, with
\* a seed item and without one.
C3_RatedNeverReturned ==
    PersonalizedDone =>
        \A k \in 1..Len(personalized) : personalized[k].id \notin rated_ids

\* C3 witness: a movie rated through track_rating is in the base list of a
\* personalized request that returned other items.
C3_Witness ==
    /\ PersonalizedDone /\ opCount > 0 /\ personalized # <<>>
    /\ \E k \in 1..Len(base_recs) : base_recs[k].id \in rated_ids \cap {2, 3}

\* the names an accumulator of each kind is keyed by
NamesOf(kind) ==
    CASE kind = "genres" -> {"SciFi", "Adventure", "Drama"}
      [] kind = "directors" -> {"Nolan", "Lee", "Scott"}
      [] kind = "actors" -> {"Hathaway", "Caine", "Ford"}
      [] OTHER -> {"space", "robot"}

\* the preference table with one accumulator raised by d
Raised(user_prefs, kind, name, d) ==
    [user_prefs EXCEPT ![kind] = Put(@, name, Get(@, name) + d)]

BoostBounded(user_prefs, movie_profile) ==
    /\ GenreTerm(user_prefs, movie_profile) <= 1500
    /\ DirectorTerm(user_prefs, movie_profile) <= 1000
    /\ ActorTerm(user_prefs, movie_profile) <= 500
    /\ calculate_personalization_score(user_prefs, movie_profile) <= 3000

BoostMonotone(user_prefs, movie_profile) ==
    \A kind \in {"genres", "directors", "actors", "keywords"} :
    \A name \in NamesOf(kind) : \A d \in {1, 1000} :
        calculate_personalization_score(Raised(user_prefs, kind, name, d), movie_profile)
            >= calculate_personalization_score(user_prefs, movie_profile)

\* C8: for every movie profile and every preference table the boost of
\* _calculate_personalization_score does not decrease when one accumulator
\* is increased, its genre, director and actor terms are at most 0.15, 0.10
\* and 0.05, and the total is at most 0.30.
C8_BoostMonotoneAndCapped ==
    /\ \A id \in MovieIds :
          /\ BoostBounded(user_profile.preferences, build_movie_profile(id, req)[1])
          /\ BoostMonotone(user_profile.preferences, build_movie_profile(id, req)[1])
    /\ \A k \in 1..Len(personalized) :
          /\ BoostBounded(user_profile.preferences, personalized[k].profile)
          /\ personalized[k].personalization_score <= 300

\* C8 witness: a returned item whose genre sum is above the genre cap and
\* whose boost is the total cap, and an accumulator whose increase still
\* raises the boost of another movie.
C8_Witness ==
    /\ PersonalizedDone
    /\ \E k \in 1..Len(personalized) :
          /\ personalized[k].personalization_score = 300
          /\ TermSum(user_profile.preferences.genres, personalized[k].profile.genres,
                     GenreWeight) > GenreCap
    /\ \E id \in MovieIds :
          calculate_personalization_score(
              Raised(user_profile.preferences, "directors", "Lee", 50),
              build_movie_profile(id, req)[1])
            > calculate_personalization_score(user_profile.preferences,
                                              build_movie_profile(id, req)[1])

----------------------------------------------------------------------------
(* Claims about concurrent requests *)

\* C9 as stated: under any interleaving of concurrent first requests the
\* load of each shared resource (CF model, embedding backend, re-ranker)
\* is started at most once.
C9_LoadedAtMostOnce ==
    \A r \in {"cf", "hf", "rr"} : loadStarts[r] <= 1

\* C10 as stated: under any interleaving of saves and loads of one user's
\* profile, two concurrent saves included, the file a reader opens holds
\* the complete serialization of one saved profile.
C10_ReaderSeesCompleteProfile ==
    rd.pc \in {"quarantine", "done"} /\ rd.fd # 0 => Complete(rd.data)

----------------------------------------------------------------------------
(* Claims about damaged persisted state *)

\* the record at the profile path cannot be read as a JSON object
Corrupted == record_state \in {"truncated", "undecodable", "not_object"}

\* C11 as stated: when the persisted record is corrupted, load_user_profile
\* moves it to the quarantine path, returns an empty profile and raises
\* nothing, and every tracking operation that follows completes without
\* raising.
C11_CorruptRecordQuarantined ==
    [][Corrupted =>
           /\ raised' = "none"
           /\ lastOp' = "load_user_profile" =>
                  /\ quarantine' = record_state
                  /\ record_state' = "absent"
                  /\ returned' = <<EmptyProfile>>]_vars

\* what the same call returns when there is no snapshot
WithoutSnapshot ==
    get_intelligent_recommendations([req EXCEPT !.cfFile = "absent"], InitialEngine,
                                    req.num_recommendations)

\* C12 as stated: with the snapshot absent, unreadable or corrupt the call
\* does not raise and returns the ranking of a run without a model.
C12_BadSnapshotOnlyDisablesBoost ==
    (pcR = "done" /\ req.cfFile \in {"absent", "unreadable", "corrupt"}) =>
        /\ path # "raised"
        /\ recommendations = WithoutSnapshot.recommendations

----------------------------------------------------------------------------
(* Claims about the similarity snapshot *)

Rows == DOMAIN saved_payload[1].top_indices
Slots == 1..ml_input.top_k
IndexAt(i, s) == saved_payload[1].top_indices[i][s]
ScoreAt(i, s) == saved_payload[1].top_scores[i][s]

\* number of other items that share a rater with item i
NeighborCount(i) ==
    Cardinality({s \in Slots : ScoreAt(i, s) > 0})

ScoresSortedAndPadded ==
    \A i \in Rows :
        /\ \A s \in Slots : s > 1 => ScoreAt(i, s - 1) >= ScoreAt(i, s)
        /\ \A s \in Slots : ScoreAt(i, s) = 0 => IndexAt(i, s) = 0

\* C13 as stated: no slot of row i holds i, scores are non-increasing, unused
\* trailing slots hold 0.
C13_NoSlotHoldsSelf ==
    saved_payload # <<>> =>
        /\ \A i \in Rows : \A s \in Slots : IndexAt(i, s) # i
        /\ ScoresSortedAndPadded

\* C13, amended: no slot with a neighbour (a positive score) holds i; the
\* scores of a row are non-increasing; the slots after the last neighbour
\* hold index 0 and score 0, so row 0 holds its own index in its padding.
C13_NoNeighborSlotHoldsSelf ==
    saved_payload # <<>> =>
        /\ \A i \in Rows : \A s \in Slots : ScoreAt(i, s) > 0 => IndexAt(i, s) # i
        /\ ScoresSortedAndPadded

\* a table with a full row, a row with fewer than K neighbours and row 0
\* padded
C13_Witness ==
    /\ saved_payload # <<>>
    /\ ml_input.top_k = MaxTopK
    /\ \E i \in Rows : NeighborCount(i) = MaxTopK
    /\ NeighborCount(0) < MaxTopK

\* every item of the ratings table has fewer than min_item_ratings ratings
AllBelowThreshold ==
    \A k \in 1..Len(ml_input.ratings) :
        Cardinality({n \in 1..Len(ml_input.ratings) :
                        ml_input.ratings[n].movieId = ml_input.ratings[k].movieId})
            < ml_input.min_item_ratings

\* C14: when every item has fewer than min_item_ratings ratings,
\* build_and_save_cf_model returns None and no snapshot file is written.
C14_NothingBuiltBelowThreshold ==
    (build_result # "not_run" /\ AllBelowThreshold) =>
        /\ build_result = "none"
        /\ snapshot_file = <<>>
        /\ saved_payload = <<>>

\* a table of several rated and linked items, all under the threshold
C14_Witness ==
    /\ build_result = "none"
    /\ AllBelowThreshold
    /\ Len(ml_input.ratings) >= 3
    /\ \A m \in MlMovies : ml_input.links[m] # 0

----------------------------------------------------------------------------
(* Claims about the feature string *)

\* the weights of the fields, in the order of the fields in the string
FieldWeights ==
    <<<<"genres", 3>>, <<"director", 3>>, <<"keywords", 2>>, <<"ml_tags", 2>>,
      <<"cast", 2>>, <<"overview", 1>>, <<"crew", 1>>>>

\* the tokens of a field of the profile; none for a missing field
TokensOf(field) ==
    IF feature_profile = <<>> \/ field \notin DOMAIN feature_profile[1] THEN <<>>
    ELSE IF field = "overview" THEN feature_profile[1][field]
    ELSE Join(feature_profile[1][field])

Occurrences(t, s) == Cardinality({i \in 1..Len(s) : s[i] = t})

\* the sum over the fields k.. of weight times the occurrences of t
RECURSIVE WeightedOccurrences(_, _)
WeightedOccurrences(t, k) ==
    IF k > Len(FieldWeights) THEN 0
    ELSE FieldWeights[k][2] * Occurrences(t, TokensOf(FieldWeights[k][1]))
         + WeightedOccurrences(t, k + 1)

\* the tokens of the fields from k on never come before those of field k
RECURSIVE LengthBefore(_)
LengthBefore(k) ==
    IF k = 1 THEN 0
    ELSE LengthBefore(k - 1) + FieldWeights[k - 1][2] * Len(TokensOf(FieldWeights[k - 1][1]))

\* C15: every token occurs weight times its count in each field, the fields
\* follow each other in the order genres, director, keywords, tags, cast,
\* overview, crew, and a missing or empty field or profile adds nothing.
C15_WeightedFieldTokens ==
    feature_string # <<>> =>
        /\ \A t \in Range(feature_string[1]) \cup
                    UNION {Range(TokensOf(FieldWeights[k][1])) : k \in 1..Len(FieldWeights)} :
               Occurrences(t, feature_string[1]) = WeightedOccurrences(t, 1)
        /\ \A k \in 1..Len(FieldWeights) :
               LET part == TokensOf(FieldWeights[k][1])
               IN \A c \in 0..(FieldWeights[k][2] - 1) : \A i \in 1..Len(part) :
                      feature_string[1][LengthBefore(k) + c * Len(part) + i] = part[i]
        /\ feature_profile = <<>> => feature_string[1] = <<>>

\* a profile with every field filled and a token shared by three fields
C15_Witness ==
    /\ feature_string # <<>>
    /\ feature_profile # <<>>
    /\ \A k \in 1..Len(FieldWeights) : TokensOf(FieldWeights[k][1]) # <<>>
    /\ Occurrences("space", feature_string[1]) = 5

----------------------------------------------------------------------------
(* Claims about provider failures, the seed and the re-ranking stage *)

IdsOf(s) == {s[k].profile.id : k \in 1..Len(s)}
ProfileIdsOf(s) == {s[k].id : k \in 1..Len(s)}

\* C16: when lookups of the provider return None or nothing, the call does
\* not raise; a candidate without details is left out and the others are
\* still ranked; an unavailable seed or an empty pool gives the empty list.
C16_ProviderFailuresDegrade ==
    pcR = "done" =>
        /\ path = "raised" => req.cfFile = "corrupt"
        /\ req.seed \in req.noDetails => (path = "no_seed" /\ recommendations = <<>>)
        /\ path \in {"main", "fallback", "no_candidates"} =>
               ProfileIdsOf(candidate_profiles) = Range(req.candOrder) \ req.noDetails
        /\ path = "main" =>
               IdsOf(scored_movies) =
                   {candidate_profiles[k].id : k \in {i \in 1..Len(candidate_profiles) :
                                                        UsedSimilarities[i] >= NoiseFloor}}
        /\ \A id \in req.noDetails : ~Returned(id)
        /\ (req.seed \notin req.noDetails /\ Range(req.candOrder) \subseteq req.noDetails) =>
               (path = "no_candidates" /\ recommendations = <<>>)

\* a ranking returned although one candidate has no details and another has
\* no credits
C16_Witness ==
    /\ pcR = "done" /\ path = "main"
    /\ Range(req.candOrder) \cap req.noDetails # {}
    /\ \E id \in req.noCredits : Returned(id)
    /\ recommendations # <<>>

\* C19 as stated: the seed is never among the returned items.
C19_SeedNeverReturned ==
    pcR = "done" => ~Returned(req.seed)

\* C20: the re-ranking keeps the set of scored candidates and the position
\* of every candidate after the first rerankTopK; when the cross-scorer
\* fails, the base order is unchanged.
C20_RerankKeepsSetAndTail ==
    (pcR = "done" /\ path = "main") =>
        /\ Len(reranked) = Len(scored_movies)
        /\ IdsOf(reranked) = IdsOf(scored_movies)
        /\ \A k \in 1..Len(scored_movies) :
               k > req.rerankTopK => reranked[k].profile.id = scored_movies[k].profile.id
        /\ req.rerank \in {"predict_raises", "bad_score", "unavailable", "disabled"} =>
               \A k \in 1..Len(scored_movies) :
                   reranked[k].profile.id = scored_movies[k].profile.id

\* three scored candidates, the first two exchanged by the cross-encoder
C20_Witness ==
    /\ pcR = "done" /\ path = "main"
    /\ req.rerank = "ok" /\ req.rerankTopK = 2
    /\ Len(scored_movies) = 3
    /\ reranked[1].profile.id = scored_movies[2].profile.id
    /\ reranked[3].profile.id = scored_movies[3].profile.id

----------------------------------------------------------------------------
(* Claims about recommendations without a seed *)

\* the last call was get_personalized_recommendations without a seed: its
\* base entries carry a final_score, which engine entries do not
NoSeedDone ==
    /\ lastOp = "personalized"
    /\ base_recs # <<>>
    /\ "final_score" \in DOMAIN base_recs[1]

\* C17 as stated: without a seed every returned candidate is from the popular
\* list and its score is the personalization boost of its features under the
\* user's accumulators plus the small term of the popular entry.
C17_NoSeedScoreIsBoostPlusTerm ==
    NoSeedDone =>
        \A k \in 1..Len(personalized) :
            /\ personalized[k].id \in Range(req.popular)
            /\ personalized[k].final_score =
                   calculate_personalization_score(
                       user_profile.preferences,
                       build_movie_profile(personalized[k].id, req)[1])
                   + Details(personalized[k].id).vote_average * 10

----------------------------------------------------------------------------
(* Claims about the selection loop and the score formula *)

MainDone == pcR = "done" /\ path = "main"

\* C21: the MMR loop ends with exactly min(N, P) entries of the scored pool of
\* size P, none of them selected twice.
C21_MmrSelectsMinNP ==
    MainDone =>
        /\ Len(final_list) = Min(req.num_recommendations, Len(reranked))
        /\ \A k \in 1..Len(final_list) :
               \E j \in 1..Len(reranked) : final_list[k] = reranked[j]
        /\ \A k, j \in 1..Len(final_list) :
               final_list[k].profile.id = final_list[j].profile.id => k = j
        /\ Len(recommendations) = Len(final_list)

\* a pool larger than N from which the loop did not take the first N
C21_Witness ==
    /\ MainDone
    /\ Len(reranked) > req.num_recommendations
    /\ req.num_recommendations >= 2
    /\ final_list # Take(reranked, req.num_recommendations)

\* the four adjustments as the documentation states them, in 1/10000:
\* voteAverage is in tenths, so (voteAverage/10)*0.08 is 8 per tenth
QualityTerm(p) == IF p.vote_average >= 60 THEN p.vote_average * 8 ELSE 0
PopularityTerm(p) == IF p.popularity * 10 < 200 THEN p.popularity * 10 ELSE 200
AgeTerm(p) ==
    IF p.release_year # 0 /\ p.release_year < 1990 /\ p.vote_average < 75 THEN 500 ELSE 0
NeighborTerm(p) == IF p.id \in cf_neighbors THEN 500 ELSE 0
StatedFinalScore(p, raw) ==
    raw + QualityTerm(p) + PopularityTerm(p) - AgeTerm(p) + NeighborTerm(p)

\* C22: every candidate at or above the noise floor is scored with raw
\* similarity + quality + popularity - age penalty + collaborative boost,
\* and the scored list is in descending order of that score.
C22_FinalScoreFormula ==
    MainDone =>
        /\ \A i \in 1..Len(candidate_profiles) :
               UsedSimilarities[i] >= 300 =>
                   \E k \in 1..Len(scored_movies) :
                       /\ scored_movies[k].profile = candidate_profiles[i]
                       /\ scored_movies[k].final_score =
                              StatedFinalScore(candidate_profiles[i], UsedSimilarities[i])
        /\ \A k \in 1..Len(scored_movies) :
               scored_movies[k].final_score =
                   StatedFinalScore(scored_movies[k].profile,
                                    scored_movies[k].similarity_score)
        /\ \A k \in 1..(Len(scored_movies) - 1) :
               scored_movies[k].final_score >= scored_movies[k + 1].final_score

\* a scored list in which the popularity cap, the age penalty, the classic
\* exemption and the collaborative boost all take effect
C22_Witness ==
    /\ MainDone
    /\ \E k \in 1..Len(scored_movies) : scored_movies[k].profile.popularity * 10 > 200
    /\ \E k \in 1..Len(scored_movies) : AgeTerm(scored_movies[k].profile) = 500
    /\ \E k \in 1..Len(scored_movies) :
          /\ scored_movies[k].profile.release_year \in 1..1989
          /\ AgeTerm(scored_movies[k].profile) = 0
          /\ NeighborTerm(scored_movies[k].profile) = 500

----------------------------------------------------------------------------
(* Claims about the personalized score with a seed *)

\* a personalized request with a seed has finished: the base entries are the
\* engine's, which carry no final_score
SeedDone ==
    /\ PersonalizedDone /\ base_recs # <<>>
    /\ "final_score" \notin DOMAIN base_recs[1]

\* the scored list of the hybrid scorer for the request
HybridScored ==
    get_intelligent_recommendations(req, [loaded |-> loaded, backend |-> backend], 1).scored_movies

HybridFinalScore(id) == HybridScored[PosIn(HybridScored, id)].final_score

\* C23 as stated: with a seed, the adjusted score of every returned candidate
\* is the hybrid scorer's finalScore plus the personalization boost, minus
\* 0.5 when the candidate is disliked, and the list is in descending order
\* of the adjusted score.
C23_AdjustedIsHybridPlusBoost ==
    SeedDone =>
        /\ \A k \in 1..Len(personalized) :
               personalized[k].final_score =
                   HybridFinalScore(personalized[k].id)
                   + calculate_personalization_score(user_profile.preferences,
                                                     personalized[k].profile)
                   - (IF personalized[k].id \in Range(user_profile.disliked)
                      THEN DislikedPenalty ELSE 0)
        /\ \A k \in 1..(Len(personalized) - 1) :
               personalized[k].final_score >= personalized[k + 1].final_score

----------------------------------------------------------------------------
(* The tracking operations of one user executed one at a time on a working *)
(* file system: each is load_user_profile, a change, save_user_profile.    *)
(* user_profile is the persisted profile; history records every entry      *)
(* handed to track_view, track_trailer_click and track_search.             *)

\* the value datetime.now() gives the next call: later than every entry
Now == Len(history.viewed) + Len(history.clicked_trailers) + Len(history.searches) + 1

\* n entries tracked by earlier sessions, with timestamps from..from + n - 1
Views(n, from) == [k \in 1..n |-> [movie_id |-> 2 + (k % 3), timestamp |-> from + k - 1]]
Searches(n, from) == [k \in 1..n |-> [query |-> "dune", timestamp |-> from + k - 1]]

\* a profile whose three lists are short entries below their caps
ProfileNearCaps(short) ==
    [EmptyProfile EXCEPT
        !.viewed = Views(ViewedCap - short, 1),
        !.clicked_trailers = Views(TrailerCap - short, ViewedCap + 1),
        !.searches = Searches(SearchCap - short, ViewedCap + TrailerCap + 1)]

HistoryOf(profile) ==
    [viewed |-> profile.viewed, clicked_trailers |-> profile.clicked_trailers,
     searches |-> profile.searches]

\* one whole tracking call: the profile is loaded, changed and saved
TrackCall(op, changed, tracked) ==
    /\ opCount < MaxOps
    /\ opCount' = opCount + 1
    /\ lastOp' = op
    /\ user_profile' = save_user_profile(load_user_profile(TheDisk).disk, changed).data
    /\ history' = tracked
    /\ UNCHANGED <<req, engineVars, rankVars, base_recs, personalized, rated_ids,
                   loadVars, fileVars, recordVars, buildVars, featureVars, trackers>>

Loaded == load_user_profile(TheDisk).profile

DoTrackView ==
    \E movie_id \in {2, 3} :
        TrackCall("track_view", track_view(Loaded, movie_id, Now),
                  [history EXCEPT !.viewed =
                      Append(@, [movie_id |-> movie_id, timestamp |-> Now])])

DoTrackTrailerClick ==
    \E movie_id \in {2} :
        TrackCall("track_trailer_click", track_trailer_click(Loaded, movie_id, Now),
                  [history EXCEPT !.clicked_trailers =
                      Append(@, [movie_id |-> movie_id, timestamp |-> Now])])

DoTrackSearch ==
    \E query \in {"alien"} :
        TrackCall("track_search", track_search(Loaded, query, Now),
                  [history EXCEPT !.searches =
                      Append(@, [query |-> query, timestamp |-> Now])])

DoTrackRating ==
    \E movie_id \in {2, 4} : \E rating \in {2, 4} :
        TrackCall("track_rating",
                  track_rating(Loaded, movie_id, rating, <<MovieData(movie_id)>>), history)

DoTrackMoreLike ==
    \E movie_id \in {3} :
        TrackCall("track_more_like",
                  track_more_like(Loaded, movie_id, <<MovieData(movie_id)>>), history)

DoTrackNotInterested ==
    \E movie_id \in {2} :
        TrackCall("track_not_interested", track_not_interested(Loaded, movie_id), history)

DoAddToWatchlist ==
    \E movie_id \in {2} :
        TrackCall("add_to_watchlist", add_to_watchlist(Loaded, movie_id), history)

DoRemoveFromWatchlist ==
    \E movie_id \in {2} :
        TrackCall("remove_from_watchlist", remove_from_watchlist(Loaded, movie_id), history)

InitTrack ==
    /\ req = NoRequest
    /\ loaded = InitialEngine.loaded
    /\ backend = InitialEngine.backend
    /\ RankIdle
    /\ LoadIdle
    /\ FileIdle
    /\ RecordIdle
    /\ BuildIdle
    /\ FeatureIdle
    /\ user_profile \in {EmptyProfile, HeavyProfile, ProfileNearCaps(1), ProfileNearCaps(0)}
    /\ history = HistoryOf(user_profile)
    /\ trackers = <<>>
    /\ lastOp = "none"
    /\ base_recs = <<>>
    /\ personalized = <<>>
    /\ opCount = 0
    /\ rated_ids = {}

NextTrack ==
    \/ DoTrackView
    \/ DoTrackTrailerClick
    \/ DoTrackSearch
    \/ DoTrackRating
    \/ DoTrackMoreLike
    \/ DoTrackNotInterested
    \/ DoAddToWatchlist
    \/ DoRemoveFromWatchlist

SpecTrack == InitTrack /\ [][NextTrack]_vars

\* list holds the newest cap entries of tracked, oldest first
NewestOf(list, tracked, cap) ==
    /\ Len(list) <= cap
    /\ Len(list) = (IF Len(tracked) < cap THEN Len(tracked) ELSE cap)
    /\ \A k \in 1..Len(list) : list[k] = tracked[Len(tracked) - Len(list) + k]

\* C24: after any sequence of tracking calls the persisted viewed list holds
\* at most 100 entries, clicked_trailers and searches at most 50 each, and
\* each list is the newest entries tracked for it, in tracking order.
C24_ListsHoldNewestEntries ==
    /\ NewestOf(user_profile.viewed, history.viewed, 100)
    /\ NewestOf(user_profile.clicked_trailers, history.clicked_trailers, 50)
    /\ NewestOf(user_profile.searches, history.searches, 50)

\* all three lists have dropped their oldest entry
C24_Witness ==
    /\ Len(history.viewed) > 100 /\ Len(user_profile.viewed) = 100
    /\ Len(history.clicked_trailers) > 50 /\ Len(user_profile.clicked_trailers) = 50
    /\ Len(history.searches) > 50 /\ Len(user_profile.searches) = 50

PreferenceKinds == {"genres", "directors", "actors", "keywords"}

\* C25: across tracked interactions executed one at a time no accumulator
\* value decreases and no accumulator entry is removed or reset.
C25_AccumulatorsNeverDecrease ==
    [][\A kind \in PreferenceKinds :
          \A name \in DOMAIN user_profile.preferences[kind] :
              /\ name \in DOMAIN user_profile'.preferences[kind]
              /\ user_profile'.preferences[kind][name]
                    >= user_profile.preferences[kind][name]]_vars

\* accumulators left by earlier sessions were raised by a rating and the
\* last call was one that learns nothing
C25_Witness ==
    /\ lastOp = "remove_from_watchlist"
    /\ Get(user_profile.preferences.genres, "SciFi") > 460
    /\ Get(user_profile.preferences.keywords, "robot") > 0
    /\ Get(user_profile.preferences.directors, "Nolan") = 220

----------------------------------------------------------------------------
(* Claims about an embedding backend that cannot be initialized *)

EngineState == [loaded |-> loaded, backend |-> backend]

\* the same request with the embedding model switched off, on a fresh engine
WithEmbeddingsOff ==
    get_intelligent_recommendations([req EXCEPT !.hf = "disabled"], InitialEngine,
                                    req.num_recommendations)

\* C26: with the embedding model enabled and its backend unavailable, the
\* request is scored with the TF-IDF similarities, returns what it returns
\* with the embedding model disabled, and leaves the engine in a state in
\* which a later request does not initialize the backend again, even when
\* the backend has become available.
C26_UnavailableEmbedderIsTfIdf ==
    (pcR = "done" /\ req.hf = "unavailable") =>
        /\ UsedSimilarities = req.similarities
        /\ path = WithEmbeddingsOff.path
        /\ scored_movies = WithEmbeddingsOff.scored_movies
        /\ recommendations = WithEmbeddingsOff.recommendations
        /\ \A later \in {"ok", "unavailable"} :
               EnsureHfModel([req EXCEPT !.hf = later], EngineState) = EngineState

\* a request with an unavailable backend returned candidates that the
\* embedding model would have rated differently
C26_Witness ==
    /\ MainDone /\ req.hf = "unavailable"
    /\ recommendations # <<>>
    /\ req.embedSimilarities # req.similarities
    /\ loaded.hf /\ backend.hf = <<>>

----------------------------------------------------------------------------
(* Concurrent tracking calls for one user.  Each call is three steps:     *)
(* load_user_profile reads the persisted profile into a local dict, the    *)
(* call changes its local dict, save_user_profile replaces the persisted   *)
(* profile with it.  No lock is taken (user_preference.py has none), so    *)
(* the steps of the calls interleave freely.                               *)

\* the calls the routes can issue at the same moment for one user
TrackingCalls ==
    {[name |-> "track_view", movie_id |-> 2],
     [name |-> "track_view", movie_id |-> 3],
     [name |-> "track_not_interested", movie_id |-> 2],
     [name |-> "add_to_watchlist", movie_id |-> 4],
     [name |-> "track_rating", movie_id |-> 3]}

\* the change a call makes to the profile it loaded; thread t reads the
\* clock value t
ApplyCall(call, profile, t) ==
    CASE call.name = "track_view" -> track_view(profile, call.movie_id, t)
      [] call.name = "track_not_interested" -> track_not_interested(profile, call.movie_id)
      [] call.name = "add_to_watchlist" -> add_to_watchlist(profile, call.movie_id)
      [] OTHER -> track_rating(profile, call.movie_id, 5, <<MovieData(call.movie_id)>>)

OtherVarsRace == <<req, engineVars, rankVars, lastOp, base_recs, personalized, opCount,
                   rated_ids, loadVars, fileVars, recordVars, buildVars, featureVars,
                   history>>

\* profile = self.load_user_profile(user_id)
CallLoad(t) ==
    /\ trackers[t].pc = "start"
    /\ trackers' = [trackers EXCEPT ![t].pc = "loaded",
                                    ![t].profile = load_user_profile(TheDisk).profile]
    /\ UNCHANGED <<user_profile, OtherVarsRace>>

\* the statements between the load and the save
CallModify(t) ==
    /\ trackers[t].pc = "loaded"
    /\ trackers' = [trackers EXCEPT ![t].pc = "modified",
                                    ![t].profile = ApplyCall(trackers[t].call, @, t)]
    /\ UNCHANGED <<user_profile, OtherVarsRace>>

\* self.save_user_profile(user_id, profile)
CallSave(t) ==
    /\ trackers[t].pc = "modified"
    /\ user_profile' = save_user_profile(TheDisk, trackers[t].profile).data
    /\ trackers' = [trackers EXCEPT ![t].pc = "done"]
    /\ UNCHANGED OtherVarsRace

InitRace ==
    /\ req = NoRequest
    /\ loaded = InitialEngine.loaded
    /\ backend = InitialEngine.backend
    /\ RankIdle
    /\ LoadIdle
    /\ FileIdle
    /\ RecordIdle
    /\ BuildIdle
    /\ FeatureIdle
    /\ user_profile \in {EmptyProfile, HeavyProfile}
    /\ history = NoHistory
    /\ trackers \in [Threads -> {[pc |-> "start", call |-> c, profile |-> <<>>] :
                                    c \in TrackingCalls}]
    /\ lastOp = "none"
    /\ base_recs = <<>>
    /\ personalized = <<>>
    /\ opCount = 0
    /\ rated_ids = {}

NextRace == \E t \in Threads : CallLoad(t) \/ CallModify(t) \/ CallSave(t)

SpecRace == InitRace /\ [][NextRace]_vars

\* the persisted profile shows that the call of thread t took place
EffectPersisted(t) ==
    LET call == trackers[t].call
    IN CASE call.name = "track_view" ->
                \E k \in 1..Len(user_profile.viewed) :
                    user_profile.viewed[k] = [movie_id |-> call.movie_id, timestamp |-> t]
         [] call.name = "track_not_interested" ->
                call.movie_id \in Range(user_profile.disliked)
         [] call.name = "add_to_watchlist" ->
                call.movie_id \in Range(user_profile.watchlist)
         [] OTHER -> Str(call.movie_id) \in DOMAIN user_profile.ratings

\* C27 as stated: when two tracking calls for one user run concurrently, the
\* profile persisted after both have finished holds the effect of both.
C27_NoTrackedInteractionLost ==
    (\A t \in Threads : trackers[t].pc = "done") =>
        \A t \in Threads : EffectPersisted(t)

----------------------------------------------------------------------------
(* Claims about neighbor lookups during the first load of the snapshot *)

\* the seed's neighbor set in the model the snapshot file holds
NeighborsInSnapshot ==
    Range(recommend_similar_by_tmdbId(req.seed, load_similarity_model(req.cfData), CfTopN))

\* C28 as stated: when the snapshot exists and loads, every call of
\* _cf_neighbors_for_tmdb, calls made while the first load is in progress
\* included, returns the seed's neighbor set from the model.
C28_EveryLookupSeesTheModel ==
    req.cfFile = "ok" =>
        \A t \in Threads :
            tpc[t].neighbors # <<>> => tpc[t].neighbors[1] = NeighborsInSnapshot

----------------------------------------------------------------------------
(* Claims about the influence of the re-ranking stage on the result *)

\* some step of the selection loop finds two available candidates with the
\* same MMR value
RECURSIVE TiedStep(_, _, _, _, _, _, _)
TiedStep(lam, scored, profiles, pw, available, selected, n) ==
    IF available = <<>> \/ ~(Len(selected) < n) THEN FALSE
    ELSE \/ \E a, b \in Range(available) :
               /\ a # b
               /\ MmrValue(lam, scored, profiles, pw, a, selected)
                     = MmrValue(lam, scored, profiles, pw, b, selected)
         \/ LET best_i == MmrPick(lam, scored, profiles, pw, available, selected, 1, 0,
                                  BestMmrInit)
            IN best_i # 0 /\ TiedStep(lam, scored, profiles, pw,
                                      SelectSeq(available, LAMBDA a : a # best_i),
                                      Append(selected, best_i), n)

NoMmrTies ==
    ~TiedStep(lambda_rel, reranked, candidate_profiles, req.pairwise,
              [i \in 1..Len(reranked) |-> i], <<>>, req.num_recommendations)

\* the same request on a fresh engine with the re-ranking stage switched off
WithoutReranking ==
    get_intelligent_recommendations([req EXCEPT !.rerank = "disabled"], InitialEngine,
                                    req.num_recommendations)

\* C29: when no selection step finds two available candidates of equal MMR
\* value, the returned list is the list returned without the re-ranking
\* stage.
C29_RerankOnlyBreaksTies ==
    (MainDone /\ NoMmrTies) => recommendations = WithoutReranking.recommendations

\* the cross-encoder reordered the scored list, the selection had no tie and
\* left candidates out
C29_Witness ==
    /\ MainDone /\ NoMmrTies
    /\ backend.rr # <<>>
    /\ \E k \in 1..Len(reranked) : reranked[k].profile.id # scored_movies[k].profile.id
    /\ Len(recommendations) >= 2
    /\ Len(recommendations) < Len(reranked)

----------------------------------------------------------------------------
(* Claims about a save that fails *)

\* what the profile path holds: <<>> when there is no file
ProfileFile == IF files.profile = 0 THEN <<>> ELSE <<inodes[files.profile]>>

\* saver w is the only call that has started, and a statement of it raised
OnlyFailedSaver(w) ==
    /\ wr[w].failed # "none"
    /\ \A v \in Writers \ {w} : wr[v].pc = "start"

\* the step is one of a save in which a statement raised
FailedSaveStep(w) == wr'[w] # wr[w] /\ wr'[w].failed # "none"

CleanupStep(w) == wr[w].pc = "cleanup" /\ wr'[w].pc = "done"

\* C30 as stated: when the write of the temporary file or the rename fails,
\* the persisted profile file is left unchanged, the temporary file is
\* removed, and no exception reaches the caller.
C30_FailedSaveRemovesTmp ==
    [][\A w \in Writers :
          /\ FailedSaveStep(w) => ProfileFile' = ProfileFile
          /\ CleanupStep(w) => files'.tmp = 0 /\ wr'[w].exc = "none"]_vars

\* C30 amended: the persisted profile file is left unchanged, both by
\* every step of a failing save and over the whole call when no other save
\* runs; no exception reaches the caller; the temporary file is removed
\* unless its removal fails as well, in which case it stays.
C30_FailedSaveIsContained ==
    /\ [](\A w \in Writers :
             OnlyFailedSaver(w) =>
                 /\ files.profile \in {0, 1}
                 /\ inodes[1] = Serialize(0))
    /\ [][\A w \in Writers :
             /\ FailedSaveStep(w) => ProfileFile' = ProfileFile
             /\ CleanupStep(w) =>
                   /\ wr'[w].exc = "none"
                   /\ files'.tmp = 0 \/ wr'[w].cleanup = "remove_failed"]_vars

\* the rename of a single save failed after the temporary file was written,
\* the file was removed and the profile saved earlier is still in place
C30_Witness ==
    /\ OnlyFailedSaver(1)
    /\ wr[1].failed = "replace" /\ wr[1].pc = "done" /\ wr[1].cleanup = "removed"
    /\ files.tmp = 0
    /\ ProfileFile = <<Serialize(0)>>

====
